---- MODULE Spec2Model ----
\* A model of the request/response codec of sayo_api_rs: the frame codec
\* (encode_report, get_crc16), the reassembler and dispatcher (ReportDecoder)
\* and the request engine (request_with_header, request, request_all_index).
\* Bytes are naturals in 0..255, byte vectors are sequences (index 1 is the
\* byte at offset 0), u16 arithmetic is taken modulo 65536.
EXTENDS Integers, Sequences, FiniteSets, TLC

VARIABLES
    buffers,          \* ReportDecoder.buffers: (report_id, cmd, index) -> bytes
    waiter_channels,  \* ReportDecoder.waiter_channels: key -> queue of senders
    screen_buffer,    \* ReportDecoder.screen_buffer
    chan,             \* the one-shot channels, by sender id
    broadcasts,       \* bodies handed to the broadcast handler, in order
    wire,             \* encoded frames: on their way to ReportDecoder::join
                      \* (SpecCodec, SpecCrc), handed to the HID endpoint (SpecReq)
    last,             \* the operation that made this state, and its result
    hist,             \* what the environment remembers of its inputs
    reqs,             \* the calls of request, in call order
    locks,            \* holders of the decoder-map lock and of the decoder lock
    listener,         \* the input-report listener: its position and its frame
    all,              \* the call of an operation that issues several requests
                      \* (request_all_index, set_addressable_data)
    mem               \* the byte vectors behind RwBytes values, and the views

vars == <<buffers, waiter_channels, screen_buffer, chan, broadcasts, wire, last, hist,
          reqs, locks, listener, all, mem>>

\* no RwBytes value exists
NoMem == [bufs |-> <<>>, views |-> <<>>]

callers == <<reqs, locks, listener, all>>

decoder == <<buffers, waiter_channels, screen_buffer, chan, broadcasts>>

\* ---------------------------------------------------------------- constants

REPORT_ID_21 == 33
REPORT_ID_22 == 34
MAX_PACKAGE_LEN_21 == 56
MAX_PACKAGE_LEN_22 == 1016
HEADER_SIZE == 8
ECHO == 19
StringContentCMD == 1
ScreenBufferCMD == 37
BroadCastCMD == 255
KeyInfoCMD == 16

\* ------------------------------------------------------------------- bounds

\* payloads span up to MaxFullFrames full frames plus a remainder
MaxFullFrames == 2
\* awaiters registered before the frames are fed
CodecAwaiters == 2

\* awaiters registered before a corrupted frame arrives
CrcAwaiters == 2
\* offsets of a long frame that the environment corrupts (and its last two)
MaxCorruptPos == 16

\* ------------------------------------------------------------------ helpers

Min(a, b) == IF a < b THEN a ELSE b

EmptyMap == [k \in {} |-> <<>>]

MapPut(m, k, v) == [x \in (DOMAIN m) \cup {k} |-> IF x = k THEN v ELSE m[x]]

MapRemove(m, k) == [x \in (DOMAIN m) \ {k} |-> m[x]]

Zeros(n) == [i \in 1..n |-> 0]

SetByte(s, pos, b) == [s EXCEPT ![pos] = b]

\* ------------------------------------------------------------ HidReportHeader

hdr_report_id(h) == h[1]

hdr_echo(h) == h[2]

hdr_sta_len(h) == h[5] + 256 * h[6]

hdr_status(h) == hdr_sta_len(h) \div 1024

hdr_len(h) == hdr_sta_len(h) % 1024

hdr_cmd(h) == h[7]

hdr_index(h) == h[8]

\* sta_len(Some((sta, len))): ((sta as u16) << 10) | (len & 0x3FF), little-endian
hdr_set_sta_len(h, sta, len) ==
    LET v == ((sta * 1024) % 65536) + (len % 1024)
    IN  [h EXCEPT ![5] = v % 256, ![6] = v \div 256]

\* ------------------------------------------------------------------ checksum

\* the term byte i (offset, from 0) adds to the sum
crc_term(data, i) == IF i % 2 = 0 THEN data[i + 1] ELSE (data[i + 1] * 256) % 65536

\* the wrapping sum of the terms of offsets lo..hi-1; wrapping_add is addition
\* modulo 65536, so the sum is taken by halves to keep the evaluation shallow
RECURSIVE crc_range(_, _, _)
crc_range(data, lo, hi) ==
    IF lo >= hi THEN 0
    ELSE IF hi = lo + 1 THEN crc_term(data, lo)
    ELSE LET mid == (lo + hi) \div 2
         IN  (crc_range(data, lo, mid) + crc_range(data, mid, hi)) % 65536

get_crc16(data) == crc_range(data, 0, Len(data))

\* -------------------------------------------------------------- encode_report

\* a message value T: its compile-time CMD tag, the StringContent encoding
\* byte (NoEnc when the type has none or it was cleared) and its bytes
NoEnc == 0 - 1

Value(tag, enc, bytes) == [tag |-> tag, enc |-> enc, bytes |-> bytes]

\* the body capacity the specification document states (64 - 12)
max_package_len_doc(report_id) ==
    IF report_id = REPORT_ID_21 THEN 52
    ELSE IF report_id = REPORT_ID_22 THEN 1012
    ELSE 0

\* 0 stands for the UnsupportedReportId arm
max_package_len(report_id) ==
    IF report_id = REPORT_ID_21 THEN MAX_PACKAGE_LEN_21
    ELSE IF report_id = REPORT_ID_22 THEN MAX_PACKAGE_LEN_22
    ELSE 0

\* a plausible slip: the frame goes out as long as its header and body
pad4_none(data) == data

\* 4-byte alignment of one frame
pad4(data) ==
    IF Len(data) % 4 # 0 THEN data \o Zeros(4 - (Len(data) % 4)) ELSE data

\* one frame: header, body, checksum patched in, zero padding
build_frame(report_id, echo, cmd, index, status, body) ==
    LET h1 == [Zeros(HEADER_SIZE) EXCEPT ![1] = report_id, ![2] = echo,
                                         ![7] = cmd, ![8] = index]
        h2 == hdr_set_sta_len(h1, status, hdr_len(h1))
        h3 == hdr_set_sta_len(h2, hdr_status(h2), (Len(body) + 4) % 65536)
        data == h3 \o body
        crc == get_crc16(data)
        patched == [data EXCEPT ![3] = crc % 256, ![4] = crc \div 256]
    IN  pad4(patched)

RECURSIVE encode_loop(_, _, _, _, _, _, _)
encode_loop(report_id, echo, cmd, index, value, packaged_len, reports) ==
    LET n == Len(value.bytes)
        max == max_package_len(report_id)
    IN  IF ~(packaged_len < n \/ packaged_len = 0)
        THEN [err |-> "None", reports |-> reports]
        ELSE
          LET terminal == packaged_len + max >= n
              status == IF terminal
                        THEN (IF value.tag = StringContentCMD THEN value.enc ELSE 0)
                        ELSE 1
          IN  IF status = NoEnc
              THEN [err |-> "BadEncodingByte", reports |-> <<>>]
              ELSE
                LET body_len == Min(max, n - packaged_len)
                    body == SubSeq(value.bytes, packaged_len + 1, packaged_len + body_len)
                    frame == build_frame(report_id, echo, cmd, index, status, body)
                    next_len == packaged_len + body_len
                IN  IF next_len = 0
                    THEN [err |-> "None", reports |-> Append(reports, frame)]
                    ELSE encode_loop(report_id, echo, cmd, index, value,
                                     next_len, Append(reports, frame))

encode_report(report_id, echo, cmd, index, value) ==
    IF max_package_len(report_id) = 0
    THEN [err |-> "UnsupportedReportId", reports |-> <<>>]
    ELSE encode_loop(report_id, echo, cmd, index, value, 0, <<>>)

\* --------------------------------------------------------------- one-shot channel

\* a channel: the key and type tag of the request that made it, the state of
\* its receiver, and the value sent through it (at most one)
Channel(key, tag) == [key |-> key, tag |-> tag, rx |-> "open", val |-> <<>>]

is_canceled(tx) == chan[tx].rx = "dropped"

\* ------------------------------------------------------------- ReportDecoder

Key(report_id, cmd, index) == <<report_id, cmd, index>>

\* the result of one call of join on the current decoder state
Ret(res, b, w, s, c, bc) ==
    [res |-> res, buffers |-> b, waiter_channels |-> w, screen_buffer |-> s,
     chan |-> c, broadcasts |-> bc]

Same(res) == Ret(res, buffers, waiter_channels, screen_buffer, chan, broadcasts)

\* a u32 in two parts, its value is hi * 2^31 + lo with hi in 0..1 and lo
\* below 2^31: every u32 has exactly one such form
u32_of(n) == [hi |-> 0, lo |-> n]

\* x > n and x - n for a u32 x and a length n of the model (below 2^31)
u32_gt(x, n) == x.hi = 1 \/ x.lo > n

u32_minus(x, n) ==
    IF x.lo >= n THEN [hi |-> x.hi, lo |-> x.lo - n]
    ELSE [hi |-> 0, lo |-> 2147483647 - (n - x.lo) + 1]

\* u32::from_le_bytes on the first four bytes of data
u32_le(data) ==
    [hi |-> data[4] \div 128,
     lo |-> data[1] + 256 * data[2] + 65536 * data[3]
            + 16777216 * (data[4] % 128)]

\* fill_screen_buffer: [err, screen]; "Panic" is the splice whose range starts
\* beyond its end
fill_screen_buffer(data) ==
    IF Len(data) < 4 THEN [err |-> "BadScreenBuffer", screen |-> screen_buffer]
    ELSE
      LET address == u32_le(data)
          bytes == SubSeq(data, 5, Len(data))
          end == IF address.hi = 1 \/ address.lo >= Len(screen_buffer)
                 THEN Len(screen_buffer)
                 ELSE Min(address.lo + Len(bytes), Len(screen_buffer))
      IN  IF u32_gt(address, end) THEN [err |-> "Panic", screen |-> screen_buffer]
          ELSE [err |-> "None",
                screen |-> SubSeq(screen_buffer, 1, address.lo) \o bytes
                           \o SubSeq(screen_buffer, end + 1, Len(screen_buffer))]

\* a plausible slip: the queue is served from its back
RECURSIVE pop_live_back(_)
pop_live_back(waiters) ==
    IF waiters = <<>> THEN [waiter |-> 0, rest |-> <<>>]
    ELSE LET tx == waiters[Len(waiters)]
             rest == SubSeq(waiters, 1, Len(waiters) - 1)
         IN  IF ~is_canceled(tx) THEN [waiter |-> tx, rest |-> rest]
             ELSE pop_live_back(rest)

\* a plausible slip: the front sender is taken without asking is_canceled
pop_live_unchecked(waiters) ==
    IF waiters = <<>> THEN [waiter |-> 0, rest |-> <<>>]
    ELSE [waiter |-> Head(waiters), rest |-> Tail(waiters)]

\* the pop loop of on_response_arrived: the first sender that is not cancelled
\* (0 when there is none) and what is left of the queue
RECURSIVE pop_live(_)
pop_live(waiters) ==
    IF waiters = <<>> THEN [waiter |-> 0, rest |-> <<>>]
    ELSE IF ~is_canceled(Head(waiters))
         THEN [waiter |-> Head(waiters), rest |-> Tail(waiters)]
         ELSE pop_live(Tail(waiters))

on_response_arrived(header, data, b) ==
    LET handle == Key(hdr_report_id(header), hdr_cmd(header), hdr_index(header))
    IN  IF hdr_cmd(header) = ScreenBufferCMD
        THEN LET f == fill_screen_buffer(data)
             IN  Ret(IF f.err = "Panic" THEN "Panic" ELSE "Ok",
                     b, waiter_channels, f.screen, chan, broadcasts)
        ELSE IF handle \notin DOMAIN waiter_channels
        THEN Ret("Ok", b, waiter_channels, screen_buffer, chan, broadcasts)
        ELSE
          LET p == pop_live(waiter_channels[handle])
              w == [waiter_channels EXCEPT ![handle] = p.rest]
          IN  IF p.waiter = 0
              THEN Ret("Ok", b, w, screen_buffer, chan, broadcasts)
              ELSE Ret("Ok", b, w, screen_buffer,
                       [chan EXCEPT ![p.waiter].val =
                            IF chan[p.waiter].rx = "open"
                            THEN <<[header |-> header, data |-> data]>>
                            ELSE <<>>],
                       broadcasts)

\* a plausible slip: every reassembled frame is dispatched to the awaiters
on_package_complete_as_response(header, data, b) == on_response_arrived(header, data, b)

on_package_complete(header, data, b) ==
    IF hdr_echo(header) = 0 /\ hdr_cmd(header) = BroadCastCMD
    THEN Ret("Ok", b, waiter_channels, screen_buffer, chan, Append(broadcasts, data))
    ELSE on_response_arrived(header, data, b)

\* a plausible slip: the checksum test is left out
checksum_ok_skipped(packet) == TRUE

\* the checksum test of join: the received value is captured, zeroed, recomputed
checksum_ok(packet) ==
    LET packet_crc == packet[3] + 256 * packet[4]
        zeroed == [packet EXCEPT ![3] = 0, ![4] = 0]
    IN  packet_crc = get_crc16(zeroed)

\* a plausible slip: the buffered segments are put after the terminal body
reassemble_appended(buffer, data) == data \o buffer

\* data.splice(0..0, buffer): the buffered segments go in front
reassemble(buffer, data) == buffer \o data

\* join once the frame passed the report-id, echo and checksum tests
join_accept(packet) ==
    LET header == SubSeq(packet, 1, HEADER_SIZE)
        cmd == hdr_cmd(header)
        index == hdr_index(header)
        len == hdr_len(header)
        handle == Key(hdr_report_id(header), cmd, index)
    IN  IF len + 4 > (Len(packet) % 65536) THEN Same("BadReportLength")
        ELSE IF HEADER_SIZE > len + 4 THEN Same("Panic")
        ELSE
          LET data == SubSeq(packet, HEADER_SIZE + 1, len + 4)
              status == hdr_status(header)
          IN  IF status = 1
              THEN Ret("Ok",
                       MapPut(buffers, handle,
                              (IF handle \in DOMAIN buffers
                               THEN buffers[handle] ELSE <<>>) \o data),
                       waiter_channels, screen_buffer, chan, broadcasts)
              ELSE IF handle \in DOMAIN buffers
                   THEN on_package_complete(header,
                            reassemble(buffers[handle], data),
                            MapRemove(buffers, handle))
                   ELSE on_package_complete(header, data, buffers)

\* a plausible slip: the frame is taken in before its checksum is compared
join_check_late(packet) ==
    IF Len(packet) < HEADER_SIZE THEN Same("BadHeaderLength")
    ELSE
      LET report_id == hdr_report_id(packet)
          echo == hdr_echo(packet)
      IN  IF report_id # REPORT_ID_21 /\ report_id # REPORT_ID_22 THEN Same("Ok")
          ELSE IF echo # ECHO /\ echo # 0 THEN Same("Ok")
          ELSE IF echo # 0 /\ ~checksum_ok(packet)
               THEN [join_accept(packet) EXCEPT !.res = "CrcError"]
          ELSE join_accept(packet)

\* a plausible slip: the len field is tested before the checksum
join_len_first(packet) ==
    IF Len(packet) < HEADER_SIZE THEN Same("BadHeaderLength")
    ELSE
      LET report_id == hdr_report_id(packet)
          echo == hdr_echo(packet)
      IN  IF report_id # REPORT_ID_21 /\ report_id # REPORT_ID_22 THEN Same("Ok")
          ELSE IF echo # ECHO /\ echo # 0 THEN Same("Ok")
          ELSE IF hdr_len(packet) + 4 > (Len(packet) % 65536) THEN Same("BadReportLength")
          ELSE IF echo # 0 /\ ~checksum_ok(packet) THEN Same("CrcError")
          ELSE join_accept(packet)

join(packet) ==
    IF Len(packet) < HEADER_SIZE THEN Same("BadHeaderLength")
    ELSE
      LET report_id == hdr_report_id(packet)
          echo == hdr_echo(packet)
      IN  IF report_id # REPORT_ID_21 /\ report_id # REPORT_ID_22 THEN Same("Ok")
          ELSE IF echo # ECHO /\ echo # 0 THEN Same("Ok")
          ELSE IF echo # 0 /\ ~checksum_ok(packet) THEN Same("CrcError")
          ELSE join_accept(packet)

\* request_response, up to the creation of the future: a new channel whose
\* sender goes to the back of the key's queue
register(w, handle, tx) ==
    MapPut(w, handle, (IF handle \in DOMAIN w THEN w[handle] ELSE <<>>) \o <<tx>>)

resize_screen_buffer(len) ==
    IF Len(screen_buffer) # len
    THEN [i \in 1..len |-> IF i <= Len(screen_buffer) THEN screen_buffer[i] ELSE 0]
    ELSE screen_buffer

\* ------------------------------------------------------------------- inputs

ReportIds == {REPORT_ID_21, REPORT_ID_22}

Cmds == {StringContentCMD, KeyInfoCMD, ScreenBufferCMD}

\* the message type a caller uses with a command: StringContent for 0x01
TagOf(cmd) == IF cmd = StringContentCMD THEN StringContentCMD ELSE KeyInfoCMD

Encodings == {2, 3, 4}

\* payload lengths: empty, 2 and 3 bytes (frames padded by 2 and by 1), one
\* more than the capacity the document states, and every multiple of the
\* capacity and one more
PayloadLens(report_id) ==
    LET cap == IF report_id = REPORT_ID_21 THEN MAX_PACKAGE_LEN_21 ELSE MAX_PACKAGE_LEN_22
    IN  {0, 2, 3, cap - 3} \cup {k * cap + d : k \in 1..MaxFullFrames, d \in {0, 1}}

Payload(len) == [i \in 1..len |-> (11 + 37 * i) % 256]

Values(report_id, cmd) ==
    {Value(TagOf(cmd), enc, Payload(n)) :
        enc \in (IF cmd = StringContentCMD THEN Encodings ELSE {NoEnc}),
        n \in PayloadLens(report_id)}

\* ------------------------------------------------- the round trip (SpecCodec)

Last(op, res) == [op |-> op, res |-> res, pos |-> 0, val |-> 0]

\* hist: the key under test, the encode call made (at most one), the awaiter
\* that was the only live one at the key when the frames were encoded (0 when
\* there was none or more than one), whether the key had no buffered
\* segments then, whether the device sent a frame of its own before, and
\* whether a frame was corrupted on the way
LiveAt(handle) ==
    IF handle \in DOMAIN waiter_channels
    THEN SelectSeq(waiter_channels[handle], LAMBDA tx : ~is_canceled(tx))
    ELSE <<>>

Buffered(handle) == IF handle \in DOMAIN buffers THEN buffers[handle] ELSE <<>>

OtherKey(handle) == Key(handle[1], handle[2], handle[3] + 1)

InitDecoder ==
    /\ buffers = EmptyMap
    /\ waiter_channels = EmptyMap
    /\ screen_buffer = <<>>
    /\ chan = <<>>
    /\ broadcasts = <<>>

\* no request is in progress
InitCallers ==
    /\ reqs = <<>>
    /\ locks = [map |-> 0, codec |-> 0]
    /\ listener = [pc |-> "idle", frame |-> <<>>]
    /\ all = [pc |-> "idle"]

InitCodec ==
    /\ InitDecoder
    /\ InitCallers
    /\ wire = <<>>
    /\ mem = NoMem
    /\ last = Last("init", "None")
    /\ \E r \in ReportIds, c \in Cmds :
          hist = [key |-> Key(r, c, 0), enc |-> <<>>, aw |-> 0, clean |-> FALSE,
                  stale |-> FALSE, corrupted |-> FALSE]

\* request_response registers an awaiter at the key under test or at another key
CodecRegister(handle) ==
    /\ hist.enc = <<>>
    /\ Len(chan) < CodecAwaiters
    /\ chan' = Append(chan, Channel(handle, TagOf(handle[2])))
    /\ waiter_channels' = register(waiter_channels, handle, Len(chan) + 1)
    /\ last' = Last("register", "None")
    /\ UNCHANGED <<buffers, screen_buffer, broadcasts, wire, mem, hist>>
    /\ UNCHANGED callers

\* the future of a request registered at the key under test is dropped
CodecDrop(tx) ==
    /\ hist.enc = <<>>
    /\ chan[tx].key = hist.key
    /\ chan[tx].rx = "open"
    /\ chan[tx].val = <<>>
    /\ chan' = [chan EXCEPT ![tx].rx = "dropped"]
    /\ last' = Last("drop", "None")
    /\ UNCHANGED <<buffers, waiter_channels, screen_buffer, broadcasts, wire, mem, hist>>
    /\ UNCHANGED callers

\* one call of join; at and to tell which byte of the frame the environment
\* changed on the way (0 for none) and the value it put there
ApplyJoinAt(packet, at, to) ==
    \E r \in {join(packet)} :
        /\ buffers' = r.buffers
        /\ waiter_channels' = r.waiter_channels
        /\ screen_buffer' = r.screen_buffer
        /\ chan' = r.chan
        /\ broadcasts' = r.broadcasts
        /\ last' = [op |-> "join", res |-> r.res, pos |-> at, val |-> to]

ApplyJoin(packet) == ApplyJoinAt(packet, 0, 0)

\* the device sends a continue frame of its own before the round trip
CodecStale ==
    \E handle \in {hist.key} :
    /\ hist.enc = <<>>
    /\ ~hist.stale
    /\ ApplyJoin(build_frame(handle[1], ECHO, handle[2], handle[3], 1, <<170, 187>>))
    /\ hist' = [hist EXCEPT !.stale = TRUE]
    /\ UNCHANGED <<wire, mem>>
    /\ UNCHANGED callers

CodecEncode(value) ==
    /\ hist.enc = <<>>
    /\ \E handle \in {hist.key} :
       \E e \in {encode_report(handle[1], ECHO, handle[2], handle[3], value)} :
           /\ wire' = e.reports
           /\ UNCHANGED mem
           /\ last' = Last("encode", e.err)
           /\ hist' = [hist EXCEPT
                         !.enc = <<[report_id |-> handle[1], echo |-> ECHO,
                                    cmd |-> handle[2], index |-> handle[3],
                                    value |-> value]>>,
                         !.aw = IF Len(LiveAt(handle)) = 1 THEN LiveAt(handle)[1] ELSE 0,
                         !.clean = (Buffered(handle) = <<>>)]
    /\ UNCHANGED decoder
    /\ UNCHANGED callers

CodecJoin ==
    /\ wire # <<>>
    /\ ApplyJoin(Head(wire))
    /\ wire' = Tail(wire)
    /\ UNCHANGED mem
    /\ UNCHANGED hist
    /\ UNCHANGED callers

NextCodec ==
    \/ \E h \in {hist.key, OtherKey(hist.key)} : CodecRegister(h)
    \/ \E tx \in DOMAIN chan : CodecDrop(tx)
    \/ CodecStale
    \/ \E v \in Values(hist.key[1], hist.key[2]) : CodecEncode(v)
    \/ CodecJoin

SpecCodec == InitCodec /\ [][NextCodec]_vars

\* ------------------------------------------------------------ claims C1, C2

Encoded == hist.enc[1]

RoundTripCase ==
    /\ hist.enc # <<>>
    /\ wire = <<>>
    /\ mem = NoMem
    /\ hist.aw # 0
    /\ hist.clean
    /\ Encoded.cmd # ScreenBufferCMD

\* C1: round trip. When the frames of encode_report(r, client echo, cmd,
\* index, p), cmd other than 0x25, have all been fed in order into join, and
\* when they were encoded the key had exactly one live awaiter and no buffered
\* segments, that awaiter holds a body equal to p and a header with the same
\* report id, cmd and index.
C1_RoundTrip ==
    RoundTripCase =>
        /\ Len(chan[hist.aw].val) = 1
        /\ chan[hist.aw].val[1].data = Encoded.value.bytes
        /\ hdr_report_id(chan[hist.aw].val[1].header) = Encoded.report_id
        /\ hdr_cmd(chan[hist.aw].val[1].header) = Encoded.cmd
        /\ hdr_index(chan[hist.aw].val[1].header) = Encoded.index

\* a payload of three frames on report 0x22 came back whole, past a cancelled
\* sender that was ahead in the queue
C1_Witness ==
    /\ RoundTripCase
    /\ Encoded.report_id = REPORT_ID_22
    /\ Len(Encoded.value.bytes) > 2 * MAX_PACKAGE_LEN_22
    /\ hist.aw = 2
    /\ chan[1].rx = "dropped"
    /\ chan[1].key = hist.key
    /\ chan[2].val # <<>>
    /\ chan[2].val[1].data = Encoded.value.bytes

\* the number of frames and their statuses for a body capacity cap
Fragmented(cap) ==
    LET n == Len(Encoded.value.bytes)
        k == Len(wire)
    IN  /\ k = (IF n <= cap THEN 1 ELSE (n + cap - 1) \div cap)
        /\ \A i \in 1..(k - 1) :
              /\ hdr_status(wire[i]) = 1
              /\ hdr_len(wire[i]) = cap + 4
              /\ Len(wire[i]) = HEADER_SIZE + cap
        /\ hdr_status(wire[k]) # 1

JustEncoded == last.op = "encode" /\ last.res = "None"

\* C2 as stated: one frame up to cap body bytes and ceil(len/cap) frames
\* beyond, all but the last with status 0x01 and cap body bytes, the last with
\* a terminal status, for cap = 52 (report 0x21) and cap = 1012 (report 0x22).
C2_FragmentationAsStated ==
    JustEncoded => Fragmented(max_package_len_doc(Encoded.report_id))

\* C2 amended: the same with the capacities encode_report uses, 56 body bytes
\* for report 0x21 and 1016 for report 0x22.
C2_Fragmentation ==
    JustEncoded =>
        Fragmented(IF Encoded.report_id = REPORT_ID_21
                   THEN MAX_PACKAGE_LEN_21 ELSE MAX_PACKAGE_LEN_22)

\* a payload of 53 bytes on report 0x21 went out as a single frame, and one of
\* 113 bytes as three
C2_Witness ==
    /\ JustEncoded
    /\ Encoded.report_id = REPORT_ID_21
    /\ Len(Encoded.value.bytes) = 2 * MAX_PACKAGE_LEN_21 + 1
    /\ Len(wire) = 3

\* ------------------------------------------- corrupted frames (SpecCrc)

\* payloads of one frame without and with padding, and of two frames
CrcValues(report_id, cmd) ==
    {Value(TagOf(cmd), enc, Payload(n)) :
        enc \in (IF cmd = StringContentCMD THEN Encodings ELSE {NoEnc}),
        n \in {0, 3, max_package_len(report_id) + 1}}

\* every offset of a frame of report 0x21; the first offsets and the last two
\* of a longer frame
CorruptPositions(frame) ==
    {p \in 1..Len(frame) :
        \/ Len(frame) <= HEADER_SIZE + MAX_PACKAGE_LEN_21
        \/ p <= MaxCorruptPos
        \/ p > Len(frame) - 2}

\* the values a byte is changed to: zero, both report ids, all ones, and the
\* byte with its lowest bit flipped
CorruptValues(old) ==
    {0, REPORT_ID_21, REPORT_ID_22, 255, IF old % 2 = 0 THEN old + 1 ELSE old - 1} \ {old}

CrcRegister(handle) ==
    /\ hist.enc = <<>>
    /\ Len(chan) < CrcAwaiters
    /\ chan' = Append(chan, Channel(handle, TagOf(handle[2])))
    /\ waiter_channels' = register(waiter_channels, handle, Len(chan) + 1)
    /\ last' = Last("register", "None")
    /\ UNCHANGED <<buffers, screen_buffer, broadcasts, wire, mem, hist>>
    /\ UNCHANGED callers

CrcResize ==
    /\ hist.enc = <<>>
    /\ screen_buffer = <<>>
    /\ screen_buffer' = resize_screen_buffer(4)
    /\ last' = Last("resize", "None")
    /\ UNCHANGED <<buffers, waiter_channels, chan, broadcasts, wire, mem, hist>>
    /\ UNCHANGED callers

\* the next frame arrives with one byte changed and the checksum as it was
CrcJoinCorrupted ==
    /\ wire # <<>>
    /\ ~hist.corrupted
    /\ \E pos \in CorruptPositions(Head(wire)) :
       \E val \in CorruptValues(Head(wire)[pos]) :
          ApplyJoinAt(SetByte(Head(wire), pos, val), pos, val)
    /\ wire' = Tail(wire)
    /\ UNCHANGED mem
    /\ hist' = [hist EXCEPT !.corrupted = TRUE]
    /\ UNCHANGED callers

NextCrc ==
    \/ \E h \in {hist.key, OtherKey(hist.key)} : CrcRegister(h)
    \/ CrcResize
    \/ \E v \in CrcValues(hist.key[1], hist.key[2]) : CodecEncode(v)
    \/ CodecJoin
    \/ CrcJoinCorrupted

SpecCrc == InitCodec /\ [][NextCrc]_vars

\* ------------------------------------------------------------ claims C3, C4

Corrupted == last.op = "join" /\ last.pos # 0

\* C3 as stated: a frame of encode_report with the client echo, one byte of
\* which was changed without recomputing the checksum, makes join return
\* CrcError, whichever byte it is.
C3_CrcRejectionAsStated == Corrupted => last.res = "CrcError"

\* C3 amended: CrcError is returned when the changed byte is at offset 2 or
\* beyond (checksum, status/len, cmd, index, body, padding), and when the
\* report id (offset 0) was changed to the other supported report id. A report
\* id changed to any other value and an echo (offset 1) changed to a value
\* other than 0 make join ignore the frame and return Ok; an echo changed to 0
\* makes join skip the checksum test and take the frame in, so it does not
\* return CrcError.
C3_CrcRejection ==
    Corrupted =>
        /\ last.pos >= 3 => last.res = "CrcError"
        /\ last.pos = 1 =>
              last.res = (IF last.val \in {REPORT_ID_21, REPORT_ID_22}
                          THEN "CrcError" ELSE "Ok")
        /\ last.pos = 2 =>
              IF last.val # 0 THEN last.res = "Ok" ELSE last.res # "CrcError"

\* the last padding byte of a two-frame payload's terminal frame was changed
\* and the frame was rejected
C3_Witness ==
    /\ Corrupted
    /\ last.res = "CrcError"
    /\ wire = <<>>
    /\ mem = NoMem
    /\ Len(Encoded.value.bytes) > MAX_PACKAGE_LEN_21
    /\ Encoded.report_id = REPORT_ID_21
    /\ last.pos = 12

\* C4: a join that returns CrcError leaves the segment buffers of every key,
\* the awaiter queues, the channels, the screen mirror and the broadcast
\* handler untouched.
C4_CrcNoEffect ==
    [][(last'.op = "join" /\ last'.res = "CrcError") => UNCHANGED decoder]_vars

\* a terminal frame was rejected while segments of its key were buffered, an
\* awaiter was queued at its key and the mirror was not empty
C4_Witness ==
    /\ last.op = "join"
    /\ last.res = "CrcError"
    /\ wire = <<>>
    /\ mem = NoMem
    /\ Buffered(hist.key) # <<>>
    /\ LiveAt(hist.key) # <<>>
    /\ LiveAt(OtherKey(hist.key)) # <<>>
    /\ screen_buffer # <<>>

\* ----------------------------------------------- request engine (device.rs)

STATUS_OK == 0
STATUS_PARTIAL == 2
STATUS_COMPLETE == 3

\* calls of request made in one behaviour
MaxRequests == 2
\* frames the device sends in one behaviour
MaxDevFrames == 2
\* calls of request and frames of the device in one behaviour, together
MaxEvents == 3

\* the lock holder that is the input-report listener (requests hold by number)
Listener == 0 - 1

Absent == <<>>

\* a plausible slip: the value keeps the encoding its constructor gave it
decode_response_untagged(tag, header, data) ==
    Value(tag, IF tag = StringContentCMD THEN 3 ELSE NoEnc, data)

\* the future of request_response on a received (header, data): T::new, and
\* for StringContent the header's status as the encoding byte
decode_response(tag, header, data) ==
    Value(tag, IF tag = StringContentCMD THEN hdr_status(header) ELSE NoEnc, data)

\* a plausible slip: only STATUS_OK counts as success
request_value_ok_only(response) ==
    IF response = Absent THEN Absent
    ELSE IF hdr_status(response[1].header) # STATUS_OK THEN Absent
         ELSE <<response[1].content>>

\* request: the content of the response when its status is a success status
request_value(response) ==
    IF response = Absent THEN Absent
    ELSE LET status == hdr_status(response[1].header)
         IN  IF status # STATUS_OK /\ status # STATUS_PARTIAL /\ status # STATUS_COMPLETE
             THEN Absent
             ELSE <<response[1].content>>

\* a call of request: where it is, its sender, the frames still to send, what
\* request_with_header returned (response), what request returned (value), and
\* how the call ended
Req(key, content, pc) ==
    [key |-> key, content |-> content, pc |-> pc, tx |-> 0, frames |-> <<>>,
     response |-> Absent, value |-> Absent, end |-> IF pc = "done" THEN "nocodec" ELSE ""]

Return(r, response, end) ==
    [reqs EXCEPT ![r].pc = "done", ![r].frames = <<>>, ![r].response = response,
                 ![r].value = request_value(response), ![r].end = end]

\* the call has decided to return absent: it prints its message and returns,
\* and its receiver lives until it has returned
Returning(r, end) ==
    [reqs EXCEPT ![r].pc = "return", ![r].frames = <<>>, ![r].end = end]

\* what last holds after a step that is not a call of join
Quiet == [op |-> "step", key |-> <<>>, status |-> 0, tx |-> 0, pre |-> <<>>]

\* request_with_header begins: require_report_codec tries the decoder-map lock
ReqCall(key, content, limit) ==
    /\ Len(reqs) < limit
    /\ IF locks.map # 0
       THEN /\ reqs' = Append(reqs, Req(key, content, "done"))
            /\ UNCHANGED locks
       ELSE /\ reqs' = Append(reqs, Req(key, content, "lookup"))
            /\ locks' = [locks EXCEPT !.map = Len(reqs) + 1]
    /\ last' = Quiet
    /\ UNCHANGED <<decoder, wire, mem, hist, listener, all>>

\* require_report_codec returns the decoder: the guard of the map lock is
\* dropped
ReqLookup(r) ==
    /\ reqs[r].pc = "lookup"
    /\ reqs' = [reqs EXCEPT ![r].pc = "lock"]
    /\ locks' = [locks EXCEPT !.map = 0]
    /\ last' = Quiet
    /\ UNCHANGED <<decoder, wire, mem, hist, listener, all>>

\* the call takes the decoder lock with try_lock().expect(..): a panic when
\* the lock is held
ReqLock(r) ==
    /\ reqs[r].pc = "lock"
    /\ IF locks.codec # 0
       THEN /\ reqs' = [reqs EXCEPT ![r].pc = "panicked"]
            /\ UNCHANGED locks
       ELSE /\ reqs' = [reqs EXCEPT ![r].pc = "register"]
            /\ locks' = [locks EXCEPT !.codec = r]
    /\ last' = Quiet
    /\ UNCHANGED <<decoder, wire, mem, hist, listener, all>>

\* a plausible slip: the sender is made before the frames are sent but is
\* queued only once the call awaits, which this engine never does for it
ReqRegister_late(r) ==
    /\ reqs[r].pc = "register"
    /\ \E key \in {reqs[r].key} :
       \E e \in {encode_report(key[1], ECHO, key[2], key[3], reqs[r].content)} :
          /\ chan' = Append(chan, Channel(key, reqs[r].content.tag))
          /\ reqs' = IF e.err = "None"
                     THEN [reqs EXCEPT ![r].pc = "send", ![r].tx = Len(chan) + 1,
                                       ![r].frames = e.reports]
                     ELSE [Returning(r, "encode") EXCEPT ![r].tx = Len(chan) + 1]
    /\ locks' = [locks EXCEPT !.codec = 0]
    /\ last' = Quiet
    /\ UNCHANGED <<buffers, waiter_channels, screen_buffer, broadcasts, wire, mem, hist,
                   listener, all>>

\* request_response registers the sender and the lock is freed; encode_report
\* follows, which touches nothing shared: the call has its frames to send, or
\* an error to report before it returns
ReqRegister(r) ==
    /\ reqs[r].pc = "register"
    /\ \E key \in {reqs[r].key} :
       \E e \in {encode_report(key[1], ECHO, key[2], key[3], reqs[r].content)} :
          /\ chan' = Append(chan, Channel(key, reqs[r].content.tag))
          /\ waiter_channels' = register(waiter_channels, key, Len(chan) + 1)
          /\ reqs' = IF e.err = "None"
                     THEN [reqs EXCEPT ![r].pc = "send", ![r].tx = Len(chan) + 1,
                                       ![r].frames = e.reports]
                     ELSE [Returning(r, "encode") EXCEPT ![r].tx = Len(chan) + 1]
    /\ locks' = [locks EXCEPT !.codec = 0]
    /\ last' = Quiet
    /\ UNCHANGED <<buffers, screen_buffer, broadcasts, wire, mem, hist, listener, all>>

\* a plausible slip: a frame whose send failed or timed out is skipped and the
\* loop goes on with the next one
ReqSend_skip(r, outcome) ==
    /\ reqs[r].pc = "send"
    /\ wire' = IF outcome = "ok" THEN Append(wire, Head(reqs[r].frames)) ELSE wire
    /\ reqs' = [reqs EXCEPT ![r].frames = Tail(reqs[r].frames),
                            ![r].pc = IF Tail(reqs[r].frames) = <<>>
                                      THEN "await" ELSE "send"]
    /\ last' = Quiet
    /\ UNCHANGED <<decoder, mem, hist, locks, listener, all>>

\* send_hid_report hands the next frame to the endpoint: the send completes,
\* fails, or runs into the per-frame timeout
ReqSend(r, outcome) ==
    /\ reqs[r].pc = "send"
    /\ IF outcome = "ok"
       THEN /\ wire' = Append(wire, Head(reqs[r].frames))
            /\ UNCHANGED mem
            /\ reqs' = [reqs EXCEPT ![r].frames = Tail(reqs[r].frames),
                                    ![r].pc = IF Tail(reqs[r].frames) = <<>>
                                              THEN "await" ELSE "send"]
       ELSE /\ reqs' = Returning(r, "send")
            /\ UNCHANGED <<wire, mem>>
    /\ last' = Quiet
    /\ UNCHANGED <<decoder, hist, locks, listener, all>>

\* the awaited receiver yields the response
ReqReceive(r) ==
    /\ reqs[r].pc = "await"
    /\ chan[reqs[r].tx].val # <<>>
    /\ \E got \in {chan[reqs[r].tx].val[1]} :
          reqs' = Return(r, <<[header |-> got.header,
                               content |-> decode_response(reqs[r].content.tag,
                                                           got.header, got.data)]>>,
                         "response")
    /\ chan' = [chan EXCEPT ![reqs[r].tx].rx = "taken"]
    /\ last' = Quiet
    /\ UNCHANGED <<buffers, waiter_channels, screen_buffer, broadcasts, wire, mem, hist,
                   locks, listener, all>>

\* the request timeout wins the select: the channel held no value when it
\* was polled
ReqTimeout(r) ==
    /\ reqs[r].pc = "await"
    /\ chan[reqs[r].tx].val = <<>>
    /\ reqs' = Returning(r, "timeout")
    /\ last' = Quiet
    /\ UNCHANGED <<decoder, wire, mem, hist, locks, listener, all>>

\* the call that decided to return absent (encode error, send error or send
\* timeout, request timeout) returns: its receiver is dropped, whatever was
\* sent through the channel in between
ReqReturn(r) ==
    /\ reqs[r].pc = "return"
    /\ chan' = [chan EXCEPT ![reqs[r].tx].rx = "dropped"]
    /\ reqs' = Return(r, Absent, reqs[r].end)
    /\ last' = Quiet
    /\ UNCHANGED <<buffers, waiter_channels, screen_buffer, broadcasts, wire, mem, hist,
                   locks, listener, all>>

\* -------------------------------------------- the input listener (device.rs)

\* on_report_arrived begins with a frame the device sent: require_report_codec
\* tries the decoder-map lock, and the frame is dropped when the lock is busy.
\* input tells how the device built the frame
ListenerArrive(input, limit) ==
    /\ listener.pc = "idle"
    /\ hist.frames < limit
    /\ hist' = [hist EXCEPT !.frames = hist.frames + 1]
    /\ IF locks.map # 0
       THEN UNCHANGED <<listener, locks>>
       ELSE /\ listener' = [pc |-> "lookup", input |-> input,
                            frame |-> build_frame(input.key[1], ECHO, input.key[2],
                                                  input.key[3], input.status, input.body)]
            /\ locks' = [locks EXCEPT !.map = Listener]
    /\ last' = Quiet
    /\ UNCHANGED <<decoder, wire, mem, reqs, all>>

\* require_report_codec returns the decoder: the guard of the map lock is
\* dropped
ListenerLookup ==
    /\ listener.pc = "lookup"
    /\ listener' = [listener EXCEPT !.pc = "lock"]
    /\ locks' = [locks EXCEPT !.map = 0]
    /\ last' = Quiet
    /\ UNCHANGED <<decoder, wire, mem, hist, reqs, all>>

\* a listener that waits for the decoder lock
ListenerLock_wait ==
    /\ listener.pc = "lock"
    /\ locks.codec = 0
    /\ listener' = [listener EXCEPT !.pc = "join"]
    /\ locks' = [locks EXCEPT !.codec = Listener]
    /\ last' = Quiet
    /\ UNCHANGED <<decoder, wire, mem, hist, reqs, all>>

\* the decoder lock is tried and the frame is dropped when it is busy
ListenerLock ==
    /\ listener.pc = "lock"
    /\ IF locks.codec # 0
       THEN /\ listener' = [pc |-> "idle", frame |-> <<>>]
            /\ UNCHANGED locks
       ELSE /\ listener' = [listener EXCEPT !.pc = "join"]
            /\ locks' = [locks EXCEPT !.codec = Listener]
    /\ last' = Quiet
    /\ UNCHANGED <<decoder, wire, mem, hist, reqs, all>>

\* what the environment notes of a call of join on a frame it built: the
\* bodies that arrived at the key since its last terminal frame (run), the
\* sender that was handed a value by this call (0 for none), the header and
\* body it expects that value to be (expect), and the senders in the order
\* they were handed values (order), and for each of them the number of
\* senders queued at the key when the call began (queued)
Noted(input, frame, tx) ==
    LET run == IF input.key \in DOMAIN hist.run THEN hist.run[input.key] ELSE <<>>
    IN  IF input.status = 1
        THEN [hist EXCEPT !.run = MapPut(hist.run, input.key, run \o input.body)]
        ELSE [hist EXCEPT
                !.run = MapPut(hist.run, input.key, <<>>),
                !.expect = IF tx = 0 THEN hist.expect
                           ELSE MapPut(hist.expect, tx,
                                       [header |-> SubSeq(frame, 1, HEADER_SIZE),
                                        status |-> input.status,
                                        body |-> run \o input.body]),
                !.order = IF tx = 0 THEN hist.order ELSE Append(hist.order, tx),
                !.queued = IF tx = 0 THEN hist.queued
                           ELSE MapPut(hist.queued, tx,
                                       IF input.key \in DOMAIN waiter_channels
                                       THEN Len(waiter_channels[input.key]) ELSE 0)]

\* join runs under the decoder lock, which is freed after it
ListenerJoin ==
    /\ listener.pc = "join"
    /\ \E r \in {join(listener.frame)} :
       \E handed \in {{t \in DOMAIN chan : r.chan[t].val # chan[t].val}} :
       \E tx \in (IF handed = {} THEN {0} ELSE handed) :
          /\ buffers' = r.buffers
          /\ waiter_channels' = r.waiter_channels
          /\ screen_buffer' = r.screen_buffer
          /\ chan' = r.chan
          /\ broadcasts' = r.broadcasts
          /\ hist' = Noted(listener.input, listener.frame, tx)
          /\ last' = [op |-> "join", key |-> listener.input.key,
                      status |-> listener.input.status, tx |-> tx,
                      pre |-> IF listener.input.key \in DOMAIN waiter_channels
                              THEN waiter_channels[listener.input.key] ELSE <<>>]
    /\ listener' = [pc |-> "idle", frame |-> <<>>]
    /\ locks' = [locks EXCEPT !.codec = 0]
    /\ UNCHANGED <<wire, mem, reqs, all>>

\* ------------------------------------- requests and responses (SpecReq)

ReqKeys == {Key(REPORT_ID_21, StringContentCMD, 0), Key(REPORT_ID_21, KeyInfoCMD, 0)}

\* the contents a caller sends: the empty value of the type, and a
\* StringContent whose encoding byte was cleared
ReqContents(key) ==
    IF key[2] = StringContentCMD
    THEN {Value(StringContentCMD, 3, <<>>), Value(StringContentCMD, NoEnc, <<>>)}
    ELSE {Value(TagOf(key[2]), NoEnc, <<>>)}

\* the statuses of the frames the device sends: continue, and a terminal
\* status that is not the encoding a new StringContent starts with
ReqStatuses == {1, STATUS_PARTIAL}

\* the device numbers its frames in the body
DevInput(key, status) == [key |-> key, status |-> status, body |-> <<hist.frames + 1>>]

InitReq ==
    /\ InitDecoder
    /\ InitCallers
    /\ wire = <<>>
    /\ mem = NoMem
    /\ last = Quiet
    /\ hist = [frames |-> 0, run |-> EmptyMap, expect |-> EmptyMap,
               order |-> <<>>, queued |-> EmptyMap]

\* a behaviour has room for one more call or frame
ReqRoom == Len(reqs) + hist.frames < MaxEvents

NextReq ==
    \/ \E key \in ReqKeys : \E content \in ReqContents(key) :
          ReqRoom /\ ReqCall(key, content, MaxRequests)
    \/ \E r \in DOMAIN reqs : ReqLookup(r)
    \/ \E r \in DOMAIN reqs : ReqLock(r)
    \/ \E r \in DOMAIN reqs : ReqRegister(r)
    \/ \E r \in DOMAIN reqs : \E outcome \in {"ok", "error", "timeout"} : ReqSend(r, outcome)
    \/ \E r \in DOMAIN reqs : ReqReceive(r)
    \/ \E r \in DOMAIN reqs : ReqTimeout(r)
    \/ \E r \in DOMAIN reqs : ReqReturn(r)
    \/ \E key \in ReqKeys, status \in ReqStatuses :
          ReqRoom /\ ListenerArrive(DevInput(key, status), MaxDevFrames)
    \/ ListenerLookup
    \/ ListenerLock
    \/ ListenerJoin

SpecReq == InitReq /\ [][NextReq]_vars

\* every task is scheduled and every timer fires: a call that can take a step
\* takes one, and so does the listener
ReqAdvance(r) ==
    /\ r \in DOMAIN reqs
    /\ \/ ReqLookup(r)
       \/ ReqLock(r)
       \/ ReqRegister(r)
       \/ \E outcome \in {"ok", "error", "timeout"} : ReqSend(r, outcome)
       \/ ReqReceive(r)
       \/ ReqTimeout(r)
       \/ ReqReturn(r)

FairReq ==
    /\ SpecReq
    /\ \A r \in 1..MaxRequests : WF_vars(ReqAdvance(r))
    /\ WF_vars(ListenerLookup)
    /\ WF_vars(ListenerLock)
    /\ WF_vars(ListenerJoin)

\* ----------------------------------- awaiters of one key in turn (SpecFifo)

\* calls of request made in one behaviour
FifoRequests == 2
\* terminal frames the device sends in one behaviour
FifoFrames == 2

\* the keys the calls await at and the device answers at
FifoKeys == {Key(REPORT_ID_21, KeyInfoCMD, 0)}

\* the content of a call: the empty value of the key's type
FifoContent(key) ==
    IF key[2] = StringContentCMD THEN Value(StringContentCMD, 3, <<>>)
    ELSE Value(TagOf(key[2]), NoEnc, <<>>)

\* the calls and the listener of SpecReq; every frame of the device is a
\* terminal frame, so each one that is joined is a response
NextFifo ==
    \/ \E key \in FifoKeys :
          ReqCall(key, FifoContent(key), FifoRequests)
    \/ \E r \in DOMAIN reqs : ReqLookup(r)
    \/ \E r \in DOMAIN reqs : ReqLock(r)
    \/ \E r \in DOMAIN reqs : ReqRegister(r)
    \/ \E r \in DOMAIN reqs : \E outcome \in {"ok", "error", "timeout"} : ReqSend(r, outcome)
    \/ \E r \in DOMAIN reqs : ReqReceive(r)
    \/ \E r \in DOMAIN reqs : ReqTimeout(r)
    \/ \E r \in DOMAIN reqs : ReqReturn(r)
    \/ \E key \in FifoKeys : ListenerArrive(DevInput(key, STATUS_PARTIAL), FifoFrames)
    \/ ListenerLookup
    \/ ListenerLock
    \/ ListenerJoin

SpecFifo == InitReq /\ [][NextFifo]_vars

\* --------------------------------------------------- claims C5, C6, C7, C8

QueueAt(key) == IF key \in DOMAIN waiter_channels THEN waiter_channels[key] ELSE <<>>

\* the position of a sender among the senders registered at its key
Rank(tx) == Cardinality({t \in 1..tx : chan[t].key = chan[tx].key})

AllLive(key) == \A tx \in DOMAIN chan : chan[tx].key = key => chan[tx].rx # "dropped"

\* the senders of a key that were handed a response, in dispatch order
Deliveries(key) == SelectSeq(hist.order, LAMBDA tx : chan[tx].key = key)

Dispatched == last.op = "join" /\ last.status # 1

\* C5: while no awaiter of a key has been dropped, the n-th response handed
\* out for the key went to the n-th awaiter registered at the key.
C5_Fifo ==
    \A key \in ReqKeys :
        AllLive(key) =>
            \A n \in 1..Len(Deliveries(key)) : Rank(Deliveries(key)[n]) = n

\* two awaiters were queued at a key when its first response was dispatched,
\* and the second response for the key has now been handed out, both
\* awaiters live
C5_Witness ==
    /\ Dispatched
    /\ last.tx # 0
    /\ AllLive(last.key)
    /\ Len(Deliveries(last.key)) = 2
    /\ Deliveries(last.key)[2] = last.tx
    /\ hist.queued[Deliveries(last.key)[1]] = 2

LiveOf(queue) == SelectSeq(queue, LAMBDA tx : ~is_canceled(tx))

\* what follows the sender tx in a queue
After(queue, tx) ==
    LET at == CHOOSE i \in 1..Len(queue) : queue[i] = tx
    IN  SubSeq(queue, at + 1, Len(queue))

\* C6: a dispatch never hands its response to a sender whose receiver was
\* dropped; it hands it to the first sender of the key's queue that is still
\* live, and the queue keeps exactly the senders behind that one (all of the
\* queue is discarded when no sender is live).
C6_Cancellation ==
    /\ (last.op = "join" /\ last.tx # 0) => chan[last.tx].rx = "open"
    /\ Dispatched =>
          IF LiveOf(last.pre) = <<>>
          THEN last.tx = 0 /\ QueueAt(last.key) = <<>>
          ELSE /\ last.tx = Head(LiveOf(last.pre))
               /\ chan[last.tx].val # <<>>
               /\ QueueAt(last.key) = After(last.pre, last.tx)

\* a response passes a sender whose request timed out and reaches the live
\* sender queued behind it
C6_Witness ==
    /\ Dispatched
    /\ last.tx # 0
    /\ Len(last.pre) = 2
    /\ last.tx = last.pre[2]
    /\ \E r \in DOMAIN reqs : reqs[r].tx = last.pre[1] /\ reqs[r].end = "timeout"

\* C7: a continue frame hands nothing to an awaiter; a terminal frame hands
\* its own header and the bodies of the run in arrival order; the request
\* returns that header and body, and a StringContent carries the terminal
\* frame's status as its encoding.
C7_Reassembly ==
    /\ (last.op = "join" /\ last.status = 1) => last.tx = 0
    /\ \A tx \in DOMAIN hist.expect :
          chan[tx].val = <<[header |-> hist.expect[tx].header,
                            data |-> hist.expect[tx].body]>>
    /\ \A r \in DOMAIN reqs :
          reqs[r].response # Absent =>
             /\ reqs[r].tx \in DOMAIN hist.expect
             /\ reqs[r].response[1].header = hist.expect[reqs[r].tx].header
             /\ reqs[r].response[1].content.bytes = hist.expect[reqs[r].tx].body
             /\ reqs[r].content.tag = StringContentCMD =>
                   reqs[r].response[1].content.enc = hist.expect[reqs[r].tx].status

\* a StringContent request returns the body of a continue frame and a
\* terminal frame
C7_Witness ==
    \E r \in DOMAIN reqs :
        /\ reqs[r].response # Absent
        /\ reqs[r].content.tag = StringContentCMD
        /\ reqs[r].response[1].content.bytes = <<1, 2>>

\* a dispatch for a key leaves no sender of a timed-out request in its queue
TimedOutDiscarded ==
    Dispatched =>
        \A r \in DOMAIN reqs :
            reqs[r].end = "timeout" =>
                \A i \in 1..Len(QueueAt(last.key)) : QueueAt(last.key)[i] # reqs[r].tx

\* C8 as stated: every call of request_with_header eventually returns (with a
\* response, or absent after the timeout or an aborted send).
C8_ReturnsAsStated ==
    \A r \in 1..MaxRequests :
        (r \in DOMAIN reqs) ~> (r \in DOMAIN reqs /\ reqs[r].pc = "done")

\* ------------------------------------------ response statuses (SpecStatus)

\* calls of request and device frames in one behaviour of SpecStatus
StatusRequests == 1
StatusFrames == 1

StatusKey == Key(REPORT_ID_22, KeyInfoCMD, 0)

\* every value of the 6-bit status field
AllStatuses == 0..63

NextStatus ==
    \/ ReqCall(StatusKey, Value(KeyInfoCMD, NoEnc, <<>>), StatusRequests)
    \/ \E r \in DOMAIN reqs : ReqLookup(r)
    \/ \E r \in DOMAIN reqs : ReqLock(r)
    \/ \E r \in DOMAIN reqs : ReqRegister(r)
    \/ \E r \in DOMAIN reqs : \E outcome \in {"ok", "error", "timeout"} : ReqSend(r, outcome)
    \/ \E r \in DOMAIN reqs : ReqReceive(r)
    \/ \E r \in DOMAIN reqs : ReqTimeout(r)
    \/ \E r \in DOMAIN reqs : ReqReturn(r)
    \/ \E status \in AllStatuses : ListenerArrive(DevInput(StatusKey, status), StatusFrames)
    \/ ListenerLookup
    \/ ListenerLock
    \/ ListenerJoin

SpecStatus == InitReq /\ [][NextStatus]_vars

\* ------------------------------------------------------------------ claim C9

\* C9: a finished call of request holds a value exactly when
\* request_with_header returned a response with status 0x00, 0x02 or 0x03, and
\* the value is that response's content; otherwise it is absent.
C9_RequestStatus ==
    \A r \in DOMAIN reqs :
        reqs[r].pc = "done" =>
            IF /\ reqs[r].response # Absent
               /\ hist.expect[reqs[r].tx].status \in {0, 2, 3}
            THEN reqs[r].value = <<reqs[r].response[1].content>>
            ELSE reqs[r].value = Absent

\* a call that got a response with status 0x02 returns its content
C9_Witness ==
    \E r \in DOMAIN reqs :
        /\ reqs[r].pc = "done"
        /\ reqs[r].response # Absent
        /\ hist.expect[reqs[r].tx].status = 2
        /\ reqs[r].value # Absent

\* --------------------------------------------- request_all_index (SpecAll)

MAX_RETRY_COUNT == 8
\* the index at which request_all_index stops
INDEX_END == 255

\* what one call of request_with_header gives the loop: absent, a response
\* with a status, or the fault of a busy decoder lock
AllOutcomes ==
    {[kind |-> "absent", status |-> 0], [kind |-> "fault", status |-> 0]}
    \cup {[kind |-> "response", status |-> st] :
            st \in {STATUS_OK, STATUS_PARTIAL, STATUS_COMPLETE, 16, 17}}

\* a plausible slip: a received response does not reset the failure count
all_turn_no_reset(a, outcome) ==
    IF outcome.kind = "fault" THEN [a EXCEPT !.pc = "panicked"]
    ELSE IF outcome.kind = "absent"
    THEN [a EXCEPT !.consecutive_failures = a.consecutive_failures + 1,
                   !.pc = IF a.consecutive_failures + 1 >= MAX_RETRY_COUNT
                          THEN "done" ELSE "loop"]
    ELSE IF outcome.status \in {STATUS_OK, STATUS_PARTIAL, STATUS_COMPLETE}
    THEN [a EXCEPT !.res = Append(a.res, a.index),
                   !.index = a.index + 1,
                   !.pc = IF a.index + 1 = INDEX_END THEN "done" ELSE "loop"]
    ELSE [a EXCEPT !.pc = "done"]

\* a plausible slip: an absent result moves on to the next index
all_turn_skip_absent(a, outcome) ==
    IF outcome.kind = "fault" THEN [a EXCEPT !.pc = "panicked"]
    ELSE IF outcome.kind = "absent"
    THEN [a EXCEPT !.consecutive_failures = a.consecutive_failures + 1,
                   !.index = a.index + 1,
                   !.pc = IF a.consecutive_failures + 1 >= MAX_RETRY_COUNT
                             \/ a.index + 1 = INDEX_END
                          THEN "done" ELSE "loop"]
    ELSE IF outcome.status \in {STATUS_OK, STATUS_PARTIAL, STATUS_COMPLETE}
    THEN [a EXCEPT !.consecutive_failures = 0,
                   !.res = Append(a.res, a.index),
                   !.index = a.index + 1,
                   !.pc = IF a.index + 1 = INDEX_END THEN "done" ELSE "loop"]
    ELSE [a EXCEPT !.consecutive_failures = 0, !.pc = "done"]

\* one turn of the loop of request_all_index, from the request to the next
\* test of consecutive_failures; res holds, for each value pushed, the index
\* of the request whose response carried it
all_turn(a, outcome) ==
    IF outcome.kind = "fault" THEN [a EXCEPT !.pc = "panicked"]
    ELSE IF outcome.kind = "absent"
    THEN [a EXCEPT !.consecutive_failures = a.consecutive_failures + 1,
                   !.pc = IF a.consecutive_failures + 1 >= MAX_RETRY_COUNT
                          THEN "done" ELSE "loop"]
    ELSE IF outcome.status = STATUS_OK \/ outcome.status = STATUS_PARTIAL
            \/ outcome.status = STATUS_COMPLETE
    THEN [a EXCEPT !.consecutive_failures = 0,
                   !.res = Append(a.res, a.index),
                   !.index = a.index + 1,
                   !.pc = IF a.index + 1 = INDEX_END THEN "done" ELSE "loop"]
    ELSE [a EXCEPT !.consecutive_failures = 0, !.pc = "done"]

\* hist counts the absent results since the last response and tells whether
\* any request returned absent
InitAll ==
    /\ InitDecoder
    /\ reqs = <<>>
    /\ locks = [map |-> 0, codec |-> 0]
    /\ listener = [pc |-> "idle", frame |-> <<>>]
    /\ wire = <<>>
    /\ mem = NoMem
    /\ all = [pc |-> "loop", index |-> 0, consecutive_failures |-> 0, res |-> <<>>]
    /\ last = [op |-> "call", kind |-> "", status |-> 0]
    /\ hist = [streak |-> 0, missed |-> FALSE]

AllRequest(outcome) ==
    /\ all.pc = "loop"
    /\ all' = all_turn(all, outcome)
    /\ last' = [op |-> "request", kind |-> outcome.kind, status |-> outcome.status]
    /\ hist' = [streak |-> IF outcome.kind = "absent" THEN hist.streak + 1 ELSE 0,
                 missed |-> hist.missed \/ outcome.kind = "absent"]
    /\ UNCHANGED <<decoder, wire, mem, reqs, locks, listener>>

NextAll == \E outcome \in AllOutcomes : AllRequest(outcome)

SpecAll == InitAll /\ [][NextAll]_vars

\* the caller's task is scheduled: the loop takes its next turn
FairAll == SpecAll /\ WF_vars(NextAll)

\* ----------------------------------------------------------------- claim C10

\* the loop goes on exactly while fewer than 8 absent results came in a row,
\* the last response (if any) had a success status, and the index is below 0xFF
AllStops ==
    (all.pc = "loop") <=>
        /\ hist.streak < 8
        /\ last.kind # "fault"
        /\ last.kind = "response" => last.status \in {0, 2, 3}
        /\ all.index < 255

\* C10: request_all_index ends whatever the device does; it ends as soon as 8
\* requests in a row returned absent, a response in between starting the count
\* anew, and at the first response with an error status such as unknown index.
C10_Terminates == <>(all.pc # "loop") /\ []AllStops

\* the loop ended on the eighth absent result in a row, after responses and
\* shorter runs of absent results
C10_Witness ==
    /\ all.pc = "done"
    /\ hist.streak = 8
    /\ all.index = 3

\* ----------------------------------------------------------------- claim C11

\* C11: the k-th value of the result (counting from 0) is the one received
\* for index k: no index is left out and none appears twice, whatever
\* requests returned absent.
C11_IndexOrder ==
    /\ Len(all.res) <= all.index
    /\ all.pc # "panicked" => Len(all.res) = all.index
    /\ \A k \in 1..Len(all.res) : all.res[k] = k - 1

\* three values were pushed and a request returned absent before the last
C11_Witness ==
    /\ Len(all.res) = 3
    /\ hist.missed
    /\ last.kind = "response"
    /\ last.status = 0

\* ------------------------------------------- set_addressable_data (SpecSet)

ADDR_ALIGNMENT == 4096
MAX_PACKET_LEN_REPORT_21 == 52
MAX_PACKET_LEN_REPORT_22 == 1012

\* the caller's data: byte i (from 0) of a buffer that starts at address 0;
\* no byte of it is zero
set_data_at(i) == 1 + (i % 251)

\* a plausible slip: a chunk fills the body of a frame (MAX_PACKAGE_LEN_*)
set_max_packet_len_frame(report_id) == max_package_len(report_id)

\* the data bytes of a chunk, after its 4 address bytes
set_max_packet_len(report_id) ==
    IF report_id = REPORT_ID_21 THEN MAX_PACKET_LEN_REPORT_21
    ELSE IF report_id = REPORT_ID_22 THEN MAX_PACKET_LEN_REPORT_22
    ELSE 0

\* a plausible slip: the end of the range is base_addr + data.len()
set_range_from_base(base_addr, data_len) ==
    LET address == base_addr - (base_addr % ADDR_ALIGNMENT)
        end0 == base_addr + data_len
        addr_end == IF end0 % ADDR_ALIGNMENT # 0
                    THEN end0 + (ADDR_ALIGNMENT - (end0 % ADDR_ALIGNMENT)) ELSE end0
    IN  [address |-> address, addr_end |-> addr_end, padded |-> TRUE, fault |-> FALSE]

\* the range set_addressable_data writes: address and addr_end, whether bytes
\* is a zero-padded copy (addr_end > data.len()) or a view of the data, and
\* whether the usize subtraction of the ref_at call goes below zero (a fault)
set_range(base_addr, data_len) ==
    LET address == base_addr - (base_addr % ADDR_ALIGNMENT)
        end0 == IF data_len = address THEN data_len + 1 ELSE data_len
        addr_end == IF end0 % ADDR_ALIGNMENT # 0
                    THEN end0 + (ADDR_ALIGNMENT - (end0 % ADDR_ALIGNMENT)) ELSE end0
    IN  [address |-> address, addr_end |-> addr_end,
         padded |-> addr_end > data_len,
         fault |-> IF addr_end > data_len THEN data_len < address
                   ELSE addr_end < address]

\* byte p (from 0) of bytes: the data from address on, then zeros
set_bytes_at(a, p) ==
    IF a.address + p < a.data_len THEN set_data_at(a.address + p) ELSE 0

\* the packet of the chunk at offset i of bytes: the address, little-endian,
\* and up to max_packet_len bytes
set_packet(a, i) ==
    LET addr == a.address + i
        packet_len == Min(a.max_packet_len, a.bytes_len - i)
    IN  <<addr % 256, (addr \div 256) % 256, (addr \div 65536) % 256,
          (addr \div 16777216) % 256>>
        \o [j \in 1..packet_len |-> set_bytes_at(a, i + j - 1)]

\* the number of packets: one per step of max_packet_len through bytes
set_packets_len(bytes_len, max_packet_len) ==
    (bytes_len + max_packet_len - 1) \div max_packet_len

\* what request_with_header hands to request for a chunk: nothing, or a
\* response whose header carries the device's status
SetOutcomes == {Absent} \cup
    {<<[header |-> hdr_set_sta_len(Zeros(HEADER_SIZE), st, 4), content |-> <<>>]>> :
        st \in {STATUS_OK, STATUS_PARTIAL, 16}}

SetBaseAddrs == {0, 100, 4096, 4196, 8192}
SetDataLens == {0, 100, 4096, 5000}

\* a plausible slip: a chunk that returned absent is forgotten
set_complate_last(complate, value) == value # Absent

\* complate after the response of a chunk
set_complate(complate, value) == complate /\ value # Absent

InitSet ==
    /\ InitDecoder
    /\ reqs = <<>>
    /\ locks = [map |-> 0, codec |-> 0]
    /\ listener = [pc |-> "idle", frame |-> <<>>]
    /\ wire = <<>>
    /\ mem = NoMem
    /\ all = [pc |-> "idle"]
    /\ last = [op |-> "init", packet |-> <<>>, status |-> NoEnc, go_on |-> TRUE]
    /\ hist = [base_addr |-> 0, data_len |-> 0, bytes |-> 0,
               stopped |-> FALSE, late |-> FALSE, lost |-> FALSE]

\* set_addressable_data up to the building of the packets; hist keeps the
\* base_addr and data.len() of the call, the number of data bytes sent so far
\* (bytes), whether on_progress has returned false (stopped),
\* whether a chunk was sent after that (late), and whether a chunk request
\* returned absent (lost)
SetCall(report_id, base_addr, data_len) ==
    /\ all.pc = "idle"
    /\ LET range == set_range(base_addr, data_len)
           bytes_len == range.addr_end - range.address
           max_packet_len == set_max_packet_len(report_id)
       IN  all' = IF range.fault
                  THEN [pc |-> "panicked"]
                  ELSE [pc |-> "chunks", report_id |-> report_id,
                        max_packet_len |-> max_packet_len,
                        address |-> range.address, addr_end |-> range.addr_end,
                        data_len |-> data_len, bytes_len |-> bytes_len,
                        packets_len |-> set_packets_len(bytes_len, max_packet_len),
                        res_index |-> 0, complate |-> TRUE,
                        sent |-> <<>>, progress |-> <<>>]
    /\ hist' = [hist EXCEPT !.base_addr = base_addr, !.data_len = data_len]
    /\ last' = [op |-> "call", packet |-> <<>>, status |-> NoEnc, go_on |-> TRUE]
    /\ UNCHANGED <<decoder, wire, mem, reqs, locks, listener>>

\* the status of a chunk's response (NoEnc when there is none)
SetStatus(response) ==
    IF response = Absent THEN NoEnc ELSE hdr_status(response[1].header)

\* one turn of the loop over the responses: the request of the next packet is
\* made and awaited, complate and res_index follow, on_progress is called
\* with res_index / packets.len() and returns go_on
SetChunk(response, go_on) ==
    /\ all.pc = "chunks"
    /\ LET packet == set_packet(all, all.res_index * all.max_packet_len)
           res_index == all.res_index + 1
       IN  /\ all' = [all EXCEPT
                        !.sent = Append(all.sent,
                                all.address + all.res_index * all.max_packet_len),
                        !.complate = set_complate(all.complate, request_value(response)),
                        !.res_index = res_index,
                        !.progress = Append(all.progress, <<res_index, all.packets_len>>),
                        !.pc = IF res_index = all.packets_len THEN "probe" ELSE "chunks"]
           /\ last' = [op |-> "chunk", packet |-> packet,
                        status |-> SetStatus(response), go_on |-> go_on]
    /\ hist' = [hist EXCEPT !.bytes =
                                hist.bytes + Min(all.max_packet_len,
                                    all.bytes_len - all.res_index * all.max_packet_len),
                            !.stopped = hist.stopped \/ ~go_on,
                            !.late = hist.late \/ hist.stopped,
                            !.lost = hist.lost
                                       \/ SetStatus(response) \notin {0, 2, 3}]
    /\ UNCHANGED <<decoder, wire, mem, reqs, locks, listener>>

\* the length probe after the last chunk, and the return of complate
SetProbe ==
    /\ all.pc = "probe"
    /\ all' = [all EXCEPT !.pc = "done"]
    /\ last' = [op |-> "probe", packet |-> <<>>, status |-> NoEnc, go_on |-> TRUE]
    /\ UNCHANGED <<decoder, wire, mem, reqs, locks, listener, hist>>

NextSet ==
    \/ \E report_id \in ReportIds, base_addr \in SetBaseAddrs, data_len \in SetDataLens :
         SetCall(report_id, base_addr, data_len)
    \/ \E response \in SetOutcomes, go_on \in BOOLEAN : SetChunk(response, go_on)
    \/ SetProbe

SpecSet == InitSet /\ [][NextSet]_vars

\* -------------------------------------------------------------- claims C12..

AlignDown(x) == x - (x % ADDR_ALIGNMENT)
AlignUp(x) == ((x + ADDR_ALIGNMENT - 1) \div ADDR_ALIGNMENT) * ADDR_ALIGNMENT

\* the call has sent all its chunks
SetOver == all.pc \in {"probe", "done"}

\* C12 as stated: every call of set_addressable_data writes exactly the range
\* from base_addr aligned down to 4096 up to base_addr + data.len() aligned up
\* to 4096.
C12_AlignmentAsStated ==
    SetOver =>
        /\ all.sent[1] = AlignDown(hist.base_addr)
        /\ all.sent[1] + hist.bytes = AlignUp(hist.base_addr + hist.data_len)

\* the end of the range the code writes from address A for data of length n
SetEnd(A, n) == IF n = A THEN A + ADDR_ALIGNMENT ELSE AlignUp(n)

\* C12, amended: with A the base_addr aligned down to 4096 and data that
\* starts at address 0, a call with A > data.len() panics before any chunk is
\* sent; otherwise the call writes exactly the range from A up to data.len()
\* aligned up to 4096 (A + 4096 when data.len() = A): every chunk carries, for
\* each address x it covers, data[x] when x < data.len() and zero otherwise,
\* the first chunk address and the total number of bytes sent are multiples
\* of 4096, and the chunk addresses strictly increase, each chunk starting
\* where the one before it ended.
C12_Alignment ==
    /\ all.pc = "panicked" <=> (last.op = "call" /\ AlignDown(hist.base_addr) > hist.data_len)
    /\ all.pc \in {"chunks", "probe", "done"} =>
         /\ \A k \in 1..Len(all.sent) :
              all.sent[k] = AlignDown(hist.base_addr) + (k - 1) * all.max_packet_len
         /\ \A k \in 1..(Len(all.sent) - 1) : all.sent[k] < all.sent[k + 1]
         /\ hist.bytes <= SetEnd(AlignDown(hist.base_addr), hist.data_len)
                            - AlignDown(hist.base_addr)
         /\ all.sent # <<>> => all.sent[1] % ADDR_ALIGNMENT = 0
    /\ last.op = "chunk" =>
         /\ Len(last.packet) > 4
         /\ all.sent[Len(all.sent)] + (Len(last.packet) - 4)
              = AlignDown(hist.base_addr) + hist.bytes
         /\ \A j \in 5..Len(last.packet) :
              LET x == all.sent[Len(all.sent)] + (j - 5)
              IN  last.packet[j] = IF x < hist.data_len THEN set_data_at(x) ELSE 0
    /\ SetOver =>
         /\ all.sent[1] + hist.bytes = SetEnd(AlignDown(hist.base_addr), hist.data_len)
         /\ hist.bytes % ADDR_ALIGNMENT = 0
         /\ hist.bytes > 0

\* a call with an unaligned base_addr inside the data has sent the chunk that
\* carries the end of the data and zeros after it
C12_Witness ==
    /\ last.op = "chunk"
    /\ hist.base_addr = 4196
    /\ hist.data_len = 5000
    /\ \E j \in 5..(Len(last.packet) - 1) : last.packet[j] # 0 /\ last.packet[j + 1] = 0

\* the call of scenario S5: base_addr 0x1000, 5000 bytes, report 0x22
S5 ==
    /\ all.pc \in {"chunks", "probe", "done"}
    /\ all.report_id = REPORT_ID_22
    /\ hist.base_addr = 4096
    /\ hist.data_len = 5000

\* C13 as stated: the call of S5 issues exactly 6 chunk requests, at 0x1000,
\* 0x13F4, 0x17E8, 0x1BDC, 0x1FD0 and 0x23C4, and calls the progress callback
\* six times with 1/6, ..., 6/6.
C13_S5AsStated ==
    (S5 /\ SetOver) =>
        /\ all.sent = <<4096, 5108, 6120, 7132, 8144, 9156>>
        /\ all.progress = [k \in 1..6 |-> <<k, 6>>]

\* C13, amended: the call of S5 issues exactly 5 chunk requests, each with up
\* to 1012 data bytes (the last with 48), at addresses 0x1000, 0x13F4, 0x17E8,
\* 0x1BDC and 0x1FD0, and calls the progress callback exactly five times with
\* 1/5, 2/5, ..., 5/5 in that order, once after each chunk.
C13_S5 ==
    S5 =>
        /\ all.sent = SubSeq(<<4096, 5108, 6120, 7132, 8144>>, 1, all.res_index)
        /\ all.progress = [k \in 1..all.res_index |-> <<k, 5>>]
        /\ all.res_index <= 5
        /\ SetOver <=> all.res_index = 5
        /\ last.op = "chunk" =>
             Len(last.packet) - 4 = IF all.res_index = 5 THEN 48 ELSE 1012

\* the call of S5 has returned
C13_Witness == S5 /\ all.pc = "done" /\ Len(all.sent) = 5

\* C14 as stated: once the progress callback has returned false after a chunk,
\* no later chunk is sent to the device.
C14_CancelAsStated == ~hist.late

\* C15: the call returns complate, which is true exactly when every chunk's
\* response came with status 0x00, 0x02 or 0x03; a chunk without such a
\* response makes the result false from then on, and the call still sends
\* every chunk before it returns.
C15_Result ==
    /\ all.pc \in {"chunks", "probe", "done"} => (all.complate <=> ~hist.lost)
    /\ all.pc \in {"probe", "done"} =>
         /\ Len(all.sent) = all.packets_len
         /\ hist.bytes = all.bytes_len

\* a chunk got no value, the chunks after it were sent and the last of them
\* succeeded: the call returns false
C15_Witness ==
    /\ all.pc = "probe"
    /\ hist.lost
    /\ last.status = STATUS_OK
    /\ ~all.complate
    /\ Len(all.sent) = all.packets_len

\* --------------------------------------------------------------------- RwBytes

\* an RwBytes value: the byte vector it shares (buf, a position in mem.bufs)
\* and its window
View(buf, offset, len) == [buf |-> buf, offset |-> offset, len |-> len]

\* a plausible slip: the range is tested against the window of the view
rw_ref_at_window(data, v, index, len) ==
    IF index + len > v.len THEN Absent
    ELSE <<View(v.buf, v.offset + index, len)>>

\* ref_at: data is the byte vector behind v
rw_ref_at(data, v, index, len) ==
    IF v.offset + index + len > Len(data) THEN Absent
    ELSE <<View(v.buf, v.offset + index, len)>>

\* u8(index, None)
rw_read_u8(data, v, index) ==
    IF v.offset + index >= Len(data) THEN Absent ELSE <<data[v.offset + index + 1]>>

\* vec(index, Some(len), None)
rw_read_vec(data, v, index, len) ==
    IF v.offset + index + len > Len(data) THEN Absent
    ELSE <<SubSeq(data, v.offset + index + 1, v.offset + index + len)>>

\* ------------------------------------------------------- BroadCast (SpecBc)

BRD_STOP == 0
BRD_LAST == 225

\* BroadCastData::data_len: [end, val]; end is "none" when a byte is missing
bd_data_len(data, v) ==
    LET tp == rw_read_u8(data, v, 0)
    IN  IF tp = Absent THEN [end |-> "none", val |-> 0]
        ELSE IF tp[1] < 128 THEN [end |-> "some", val |-> 1]
        ELSE IF tp[1] >= 128 /\ tp[1] < 192 THEN [end |-> "some", val |-> 2]
        ELSE IF tp[1] >= 192 /\ tp[1] < 224 THEN [end |-> "some", val |-> 4]
        ELSE LET len == rw_read_u8(data, v, 1)
             IN  IF len = Absent THEN [end |-> "none", val |-> 0]
                 ELSE [end |-> "some", val |-> len[1]]

\* BroadCastData::len: len + 1 in u8, which overflows at 255: a panic in a
\* build with overflow checks, 0 in a build without
bd_len(data, v, build) ==
    LET len == bd_data_len(data, v)
    IN  IF len.end = "none" THEN len
        ELSE IF len.val + 1 > 255
             THEN IF build = "debug" THEN [end |-> "panic", val |-> 0]
                  ELSE [end |-> "some", val |-> (len.val + 1) % 256]
        ELSE [end |-> "some", val |-> len.val + 1]

\* BroadCastData::data(None): [end, val]; for an explicit length the first
\* byte is skipped and len - 1 is taken in usize; with len 0 the subtraction
\* panics, or wraps and the slice of vec panics
bd_data(data, v) ==
    LET len == bd_data_len(data, v)
        tp == rw_read_u8(data, v, 0)
    IN  IF len.end = "none" THEN [end |-> "none", val |-> <<>>]
        ELSE IF tp[1] >= 224
             THEN IF len.val = 0 THEN [end |-> "panic", val |-> <<>>]
                  ELSE LET r == rw_read_vec(data, v, 2, len.val - 1)
                       IN  IF r = Absent THEN [end |-> "none", val |-> <<>>]
                           ELSE [end |-> "some", val |-> r[1]]
        ELSE LET r == rw_read_vec(data, v, 1, len.val)
             IN  IF r = Absent THEN [end |-> "none", val |-> <<>>]
                 ELSE [end |-> "some", val |-> r[1]]

\* a plausible slip: the loop goes on after an item of type 0xE1
RECURSIVE bc_loop_past_last(_, _, _, _, _)
bc_loop_past_last(data, v, i, res, build) ==
    IF ~(i < v.len) THEN [end |-> "return", res |-> res]
    ELSE
      LET rest == rw_ref_at(data, v, i, v.len - i)
      IN  IF rest = Absent THEN [end |-> "return", res |-> res]
          ELSE
            LET data_len == bd_len(data, rest[1], build)
            IN  IF data_len.end = "panic" THEN [end |-> "panic", res |-> res]
                ELSE IF data_len.end = "none" THEN [end |-> "return", res |-> res]
                ELSE
                  LET bytes == rw_ref_at(data, v, i, data_len.val)
                  IN  IF bytes = Absent THEN [end |-> "return", res |-> res]
                      ELSE IF rw_read_u8(data, bytes[1], 0) = <<BRD_STOP>>
                      THEN [end |-> "return", res |-> res]
                      ELSE IF data_len.val = 0
                      THEN [end |-> "hang", res |-> res]
                      ELSE bc_loop_past_last(data, v, i + data_len.val,
                                             Append(res, bytes[1]), build)

\* the loop of BroadCast::data from cursor i with the items res: [end, res];
\* end is "return", "panic", or "hang" when the cursor stops advancing
RECURSIVE bc_loop(_, _, _, _, _)
bc_loop(data, v, i, res, build) ==
    IF ~(i < v.len) THEN [end |-> "return", res |-> res]
    ELSE
      LET rest == rw_ref_at(data, v, i, v.len - i)
      IN  IF rest = Absent THEN [end |-> "return", res |-> res]
          ELSE
            LET data_len == bd_len(data, rest[1], build)
            IN  IF data_len.end = "panic" THEN [end |-> "panic", res |-> res]
                ELSE IF data_len.end = "none" THEN [end |-> "return", res |-> res]
                ELSE
                  LET bytes == rw_ref_at(data, v, i, data_len.val)
                  IN  IF bytes = Absent THEN [end |-> "return", res |-> res]
                      ELSE IF rw_read_u8(data, bytes[1], 0) = <<BRD_STOP>>
                      THEN [end |-> "return", res |-> res]
                      ELSE IF rw_read_u8(data, bytes[1], 0) = <<BRD_LAST>>
                      THEN [end |-> "return", res |-> Append(res, bytes[1])]
                      ELSE IF data_len.val = 0
                      THEN [end |-> "hang", res |-> res]
                      ELSE bc_loop(data, v, i + data_len.val,
                                   Append(res, bytes[1]), build)

bc_data_past_last(data, v, build) == bc_loop_past_last(data, v, 0, <<>>, build)

\* BroadCast::data
bc_data(data, v, build) == bc_loop(data, v, 0, <<>>, build)

\* items a stream is built from in one behaviour
MaxItems == 2

Item(type, body) == [type |-> type, body |-> body]

BcItems ==
    {Item(1, <<88>>), Item(127, <<0>>), Item(128, <<17, 0>>),
     Item(192, <<17, 34, 51, 68>>), Item(224, <<>>), Item(224, <<5>>),
     Item(255, <<0, 9>>), Item(BRD_LAST, <<1, 2>>)}

\* the bytes of an item; the length byte of an explicit item counts itself
\* ("counted") or only the body ("body")
bc_item_bytes(item, conv) ==
    IF item.type >= 224
    THEN <<item.type, Len(item.body) + (IF conv = "counted" THEN 1 ELSE 0)>> \o item.body
    ELSE <<item.type>> \o item.body

RECURSIVE bc_stream(_, _)
bc_stream(items, conv) ==
    IF items = <<>> THEN <<BRD_STOP>>
    ELSE bc_item_bytes(Head(items), conv) \o bc_stream(Tail(items), conv)

\* the broadcast of scenario S6, with the length byte 7 before 7 bytes
S6Items ==
    <<Item(1, <<88>>), Item(192, <<17, 34, 51, 68>>), Item(BRD_LAST, <<1, 2, 3, 4, 5, 6, 7>>)>>

\* the streams of a behaviour: built from up to MaxItems items in either
\* convention, the one of S6, and streams that are not built from items (a
\* length byte of 0xFF and of 0x00, a last item that is cut short, a missing
\* length byte, bytes after the sentinel)
BcInputs ==
    {[items |-> items, conv |-> conv, stream |-> bc_stream(items, conv)] :
        items \in UNION {[1..n -> BcItems] : n \in 1..MaxItems},
        conv \in {"counted", "body"}}
    \cup {[items |-> S6Items, conv |-> "body", stream |-> bc_stream(S6Items, "body")]}
    \cup {[items |-> <<>>, conv |-> "raw", stream |-> raw] :
            raw \in {<<224, 255, 1, 0>>, <<BRD_LAST, 255, 1>>, <<1, 88, 224, 0, 7, 0>>,
                     <<1, 88, 192, 17, 34>>, <<1, 88, 224>>, <<1, 88, 0, 1, 88>>}}

InitBc ==
    /\ InitDecoder
    /\ reqs = <<>>
    /\ locks = [map |-> 0, codec |-> 0]
    /\ listener = [pc |-> "idle", frame |-> <<>>]
    /\ all = [pc |-> "idle"]
    /\ wire = <<>>
    /\ mem = NoMem
    /\ last = [op |-> "init", end |-> "", res |-> <<>>, items |-> <<>>]
    /\ hist = [items |-> <<>>, conv |-> "", stream |-> <<>>, cut |-> 0, sent |-> FALSE]

\* the device sends one broadcast (echo 0, cmd 0xFF) in one frame (cut 0) or
\* cut into a continue frame and a terminal frame
BcSend(input, cut) ==
    /\ ~hist.sent
    /\ cut < Len(input.stream)
    /\ wire' = IF cut = 0
               THEN <<build_frame(REPORT_ID_22, 0, BroadCastCMD, 0, STATUS_OK, input.stream)>>
               ELSE <<build_frame(REPORT_ID_22, 0, BroadCastCMD, 0, 1,
                                  SubSeq(input.stream, 1, cut)),
                      build_frame(REPORT_ID_22, 0, BroadCastCMD, 0, STATUS_OK,
                                  SubSeq(input.stream, cut + 1, Len(input.stream)))>>
    /\ hist' = [items |-> input.items, conv |-> input.conv, stream |-> input.stream,
                cut |-> cut, sent |-> TRUE]
    /\ last' = [op |-> "send", end |-> "", res |-> <<>>, items |-> <<>>]
    /\ UNCHANGED <<decoder, mem, callers>>

\* join of the next frame; a completed broadcast goes to the handler as
\* BroadCast::new(RwBytes::new(data))
BcJoin ==
    /\ wire # <<>>
    /\ \E r \in {join(Head(wire))} :
        /\ buffers' = r.buffers
        /\ waiter_channels' = r.waiter_channels
        /\ screen_buffer' = r.screen_buffer
        /\ chan' = r.chan
        /\ broadcasts' = r.broadcasts
        /\ mem' = IF Len(r.broadcasts) > Len(broadcasts)
                  THEN [bufs |-> Append(mem.bufs, r.broadcasts[Len(r.broadcasts)]),
                        views |-> Append(mem.views,
                                         View(Len(mem.bufs) + 1, 0,
                                              Len(r.broadcasts[Len(r.broadcasts)])))]
                  ELSE mem
        /\ last' = [op |-> "join", end |-> r.res, res |-> <<>>, items |-> <<>>]
    /\ wire' = Tail(wire)
    /\ UNCHANGED <<hist, callers>>

\* a subscriber calls data() on the BroadCast it was handed, then data_type
\* and data on every item returned
BcData(build) ==
    /\ mem.views # <<>>
    /\ last.op = "join"
    /\ LET v == mem.views[1]
           data == mem.bufs[v.buf]
           r == bc_data(data, v, build)
           got == IF r.end = "return" THEN r.res ELSE <<>>
       IN  /\ last' = [op |-> "data", end |-> r.end, res |-> got,
                       items |-> [k \in 1..Len(got) |->
                                    [type |-> rw_read_u8(data, got[k], 0),
                                     data |-> bd_data(data, got[k])]]]
           /\ mem' = [mem EXCEPT !.views = mem.views \o got]
    /\ UNCHANGED <<decoder, wire, hist, callers>>

NextBc ==
    \/ \E input \in BcInputs, cut \in {0, 1, 3} : BcSend(input, cut)
    \/ BcJoin
    \/ \E build \in {"debug", "release"} : BcData(build)

SpecBc == InitBc /\ [][NextBc]_vars

\* no item of type 0xE1 before the last item
NoEarlyLast(items) == \A k \in 1..(Len(items) - 1) : items[k].type # BRD_LAST

\* data() returned exactly the items the stream was built from
Parsed(items) ==
    /\ last.end = "return"
    /\ Len(last.items) = Len(items)
    /\ \A k \in 1..Len(items) :
         /\ k \in DOMAIN last.items
         /\ last.items[k].type = <<items[k].type>>
         /\ last.items[k].data = [end |-> "some", val |-> items[k].body]

\* C16 as stated: a stream built from items whose explicit length byte L is
\* followed by L body bytes, ended by 0x00 and with no 0xE1 item before the
\* last, is parsed into exactly its items (here for streams whose items all
\* have a body, so that no length byte is 0x00).
C16_ParsingAsStated ==
    (/\ last.op = "data"
     /\ hist.conv = "body"
     /\ NoEarlyLast(hist.items)
     /\ \A k \in 1..Len(hist.items) : hist.items[k].body # <<>>) =>
        Parsed(hist.items)

\* the number of items up to the first item of type 0xE1
UpToLast(items) ==
    IF \E k \in 1..Len(items) : items[k].type = BRD_LAST
    THEN CHOOSE k \in 1..Len(items) :
           /\ items[k].type = BRD_LAST
           /\ \A j \in 1..(k - 1) : items[j].type # BRD_LAST
    ELSE Len(items)

\* C17: what BroadCast::data returns never holds an item of type 0x00, holds
\* an item of type 0xE1 only as its last item, and is a run of adjacent items
\* from the start of the stream, so no byte after the sentinel or after a 0xE1
\* item produces an item; a stream built from items yields its items up to
\* the first 0xE1 item, and the broadcast of S6 yields exactly 3 items.
C17_Stops ==
    last.op = "data" =>
        /\ \A k \in 1..Len(last.res) :
             /\ last.items[k].type # <<BRD_STOP>>
             /\ k < Len(last.res) => last.items[k].type # <<BRD_LAST>>
             /\ last.res[k].offset = IF k = 1 THEN 0
                                     ELSE last.res[k - 1].offset + last.res[k - 1].len
        /\ hist.conv = "counted" =>
             /\ last.end = "return"
             /\ Len(last.res) = UpToLast(hist.items)
        /\ hist.stream = <<1, 88, 0, 1, 88>> => Len(last.res) = 1
        /\ hist.items = S6Items =>
             /\ last.end = "return"
             /\ Len(last.res) = 3
             /\ last.items[3].type = <<BRD_LAST>>

\* the broadcast of S6, sent as its two segments, has been parsed
C17_Witness ==
    /\ last.op = "data"
    /\ hist.items = S6Items
    /\ hist.cut = 3
    /\ Len(last.res) = 3

\* C18: every frame encode_report produces has a length divisible by 4; the
\* header's len field is the number of body bytes in the frame plus 4, the
\* body bytes follow the header, and the bytes after them, at most 3, are zero.
C18_Padding ==
    JustEncoded =>
        LET n == Len(Encoded.value.bytes)
            cap == IF Encoded.report_id = REPORT_ID_21 THEN 56 ELSE 1016
        IN  \A i \in 1..Len(wire) :
              LET body == IF i < Len(wire) THEN cap ELSE n - (i - 1) * cap
              IN  /\ Len(wire[i]) % 4 = 0
                  /\ hdr_len(wire[i]) = body + 4
                  /\ Len(wire[i]) - (HEADER_SIZE + body) \in 0..3
                  /\ SubSeq(wire[i], HEADER_SIZE + 1, HEADER_SIZE + body)
                       = SubSeq(Encoded.value.bytes, (i - 1) * cap + 1, (i - 1) * cap + body)
                  /\ \A j \in (HEADER_SIZE + body + 1)..Len(wire[i]) : wire[i][j] = 0

\* a payload of one byte more than a full frame went out as two frames, the
\* second padded from 9 to 12 bytes; and a payload of 3 bytes as a frame
\* padded by one byte
C18_Witness ==
    /\ JustEncoded
    /\ \/ /\ Len(wire) = 2
          /\ hdr_len(wire[2]) = 5
          /\ Len(wire[2]) = 12
          /\ Encoded.value.bytes[Len(Encoded.value.bytes)] # 0
       \/ /\ Len(wire) = 1
          /\ hdr_len(wire[1]) = 7
          /\ Len(wire[1]) = 12

\* ------------------------------------------------------------ RwBytes (SpecRw)

\* the length of the byte vector a behaviour starts with
RwLen == 4
\* RwBytes values kept in one behaviour
MaxViews == 2

\* the bytes from actual_index on are replaced by bytes
rw_put(data, actual_index, bytes) ==
    [j \in 1..Len(data) |->
        IF j > actual_index /\ j <= actual_index + Len(bytes)
        THEN bytes[j - actual_index] ELSE data[j]]

\* u8(index, value): [ret, data]
rw_u8(data, v, index, value) ==
    LET actual_index == v.offset + index
    IN  IF actual_index >= Len(data) THEN [ret |-> Absent, data |-> data]
        ELSE LET d == IF value # Absent THEN rw_put(data, actual_index, value) ELSE data
             IN  [ret |-> <<d[actual_index + 1]>>, data |-> d]

\* u16(index, value), little-endian: [ret, data]
rw_u16(data, v, index, value) ==
    LET actual_index == v.offset + index
    IN  IF actual_index + 1 >= Len(data) THEN [ret |-> Absent, data |-> data]
        ELSE LET d == IF value # Absent
                      THEN rw_put(data, actual_index,
                                  <<value[1] % 256, value[1] \div 256>>)
                      ELSE data
             IN  [ret |-> <<d[actual_index + 1] + 256 * d[actual_index + 2]>>, data |-> d]

\* i16(index, value): the two bytes are the value in two's complement
rw_i16(data, v, index, value) ==
    LET actual_index == v.offset + index
    IN  IF actual_index + 1 >= Len(data) THEN [ret |-> Absent, data |-> data]
        ELSE LET d == IF value # Absent
                      THEN rw_put(data, actual_index,
                                  <<(value[1] + 65536) % 256,
                                    ((value[1] + 65536) % 65536) \div 256>>)
                      ELSE data
                 u == d[actual_index + 1] + 256 * d[actual_index + 2]
             IN  [ret |-> <<IF u >= 32768 THEN u - 65536 ELSE u>>, data |-> d]

\* u32(index, value); a u32 is held as its two 16-bit halves <<low, high>>
rw_u32(data, v, index, value) ==
    LET actual_index == v.offset + index
    IN  IF actual_index + 3 >= Len(data) THEN [ret |-> Absent, data |-> data]
        ELSE LET d == IF value # Absent
                      THEN rw_put(data, actual_index,
                                  <<value[1][1] % 256, value[1][1] \div 256,
                                    value[1][2] % 256, value[1][2] \div 256>>)
                      ELSE data
             IN  [ret |-> << <<d[actual_index + 1] + 256 * d[actual_index + 2],
                               d[actual_index + 3] + 256 * d[actual_index + 4]>> >>,
                  data |-> d]

\* vec(index, len, value): [ret, data]
rw_vec(data, v, index, len, value) ==
    LET actual_index == v.offset + index
    IN  IF value # Absent
        THEN LET write_len == IF len # Absent THEN len[1] ELSE Len(value[1])
             IN  IF actual_index + write_len > Len(data) \/ write_len > Len(value[1])
                 THEN [ret |-> Absent, data |-> data]
                 ELSE [ret |-> value,
                       data |-> rw_put(data, actual_index, SubSeq(value[1], 1, write_len))]
        ELSE LET read_len == IF len # Absent THEN len[1]
                             ELSE IF Len(data) > actual_index
                                  THEN Len(data) - actual_index ELSE 0
             IN  IF actual_index + read_len > Len(data)
                 THEN [ret |-> Absent, data |-> data]
                 ELSE [ret |-> <<SubSeq(data, actual_index + 1, actual_index + read_len)>>,
                       data |-> data]

ENC_GB18030 == 2
ENC_UTF16LE == 3
ENC_ASCII == 4

\* U+FFFD, the character a decoder puts for a malformed sequence
REPLACEMENT_CHARACTER == 65533

\* A String is held as its bytes, which are well-formed UTF-8.  chars: the
\* code points of a String; on other bytes, what the UTF-8 decoder of
\* encoding_rs gives, one U+FFFD for each malformed sequence
RECURSIVE chars(_)
chars(b) ==
    IF b = <<>> THEN <<>>
    ELSE LET c == b[1]
             need == IF c < 128 THEN 0
                     ELSE IF c >= 194 /\ c <= 223 THEN 1
                     ELSE IF c >= 224 /\ c <= 239 THEN 2
                     ELSE IF c >= 240 /\ c <= 244 THEN 3
                     ELSE 0 - 1
             lo == IF c = 224 THEN 160 ELSE IF c = 240 THEN 144 ELSE 128
             hi == IF c = 237 THEN 159 ELSE IF c = 244 THEN 143 ELSE 191
             ok(k) == /\ Len(b) >= k
                      /\ b[k] >= (IF k = 2 THEN lo ELSE 128)
                      /\ b[k] <= (IF k = 2 THEN hi ELSE 191)
             got == IF need >= 1 /\ ok(2)
                    THEN IF need >= 2 /\ ok(3)
                         THEN IF need >= 3 /\ ok(4) THEN 3 ELSE 2
                         ELSE 1
                    ELSE 0
             point == IF need = 1 THEN (c % 32) * 64 + (b[2] % 64)
                      ELSE IF need = 2
                      THEN (c % 16) * 4096 + (b[2] % 64) * 64 + (b[3] % 64)
                      ELSE (c % 8) * 262144 + (b[2] % 64) * 4096
                           + (b[3] % 64) * 64 + (b[4] % 64)
         IN  IF need = 0 THEN <<c>> \o chars(Tail(b))
             ELSE IF need = 0 - 1 THEN <<REPLACEMENT_CHARACTER>> \o chars(Tail(b))
             ELSE IF got = need THEN <<point>> \o chars(SubSeq(b, need + 2, Len(b)))
             ELSE <<REPLACEMENT_CHARACTER>> \o chars(SubSeq(b, got + 2, Len(b)))

\* to_string: the String of a sequence of code points, as its UTF-8 bytes
RECURSIVE to_string(_)
to_string(cs) ==
    IF cs = <<>> THEN <<>>
    ELSE LET c == cs[1]
         IN  (IF c < 128 THEN <<c>>
              ELSE IF c < 2048 THEN <<192 + (c \div 64), 128 + (c % 64)>>
              ELSE IF c < 65536
              THEN <<224 + (c \div 4096), 128 + ((c \div 64) % 64), 128 + (c % 64)>>
              ELSE <<240 + (c \div 262144), 128 + ((c \div 4096) % 64),
                     128 + ((c \div 64) % 64), 128 + (c % 64)>>)
             \o to_string(Tail(cs))

\* str::encode_utf16: the UTF-16 code units of a sequence of code points
RECURSIVE encode_utf16(_)
encode_utf16(cs) ==
    IF cs = <<>> THEN <<>>
    ELSE (IF cs[1] < 65536 THEN <<cs[1]>>
          ELSE <<55296 + ((cs[1] - 65536) \div 1024), 56320 + ((cs[1] - 65536) % 1024)>>)
         \o encode_utf16(Tail(cs))

\* the UTF-16 decoder of encoding_rs on code units, odd telling that one byte
\* follows the last unit: a surrogate without its partner is one U+FFFD, and
\* so is what is cut short at the end of the input
RECURSIVE utf16_chars(_, _)
utf16_chars(u, odd) ==
    IF u = <<>> THEN IF odd THEN <<REPLACEMENT_CHARACTER>> ELSE <<>>
    ELSE IF u[1] >= 55296 /\ u[1] <= 56319
    THEN IF Len(u) >= 2 /\ u[2] >= 56320 /\ u[2] <= 57343
         THEN <<65536 + (u[1] - 55296) * 1024 + (u[2] - 56320)>>
              \o utf16_chars(SubSeq(u, 3, Len(u)), odd)
         ELSE IF Len(u) = 1 THEN <<REPLACEMENT_CHARACTER>>
         ELSE <<REPLACEMENT_CHARACTER>> \o utf16_chars(Tail(u), odd)
    ELSE IF u[1] >= 56320 /\ u[1] <= 57343
    THEN <<REPLACEMENT_CHARACTER>> \o utf16_chars(Tail(u), odd)
    ELSE <<u[1]>> \o utf16_chars(Tail(u), odd)

\* the code points of bytes read as UTF-16, little-endian or big-endian
utf16_decode(bytes, be) ==
    utf16_chars([k \in 1..(Len(bytes) \div 2) |->
                    IF be THEN 256 * bytes[2 * k - 1] + bytes[2 * k]
                    ELSE bytes[2 * k - 1] + 256 * bytes[2 * k]],
                Len(bytes) % 2 = 1)

\* The index of GB18030 (encoding_rs), pointer to code point, for the
\* two-byte sequences of the strings followed here: U+00E9 (A8 A6),
\* U+6D4B (B2 E2), U+4E2D (D6 D0)
gb18030_index == (7511 :> 233) @@ (9471 :> 27979) @@ (16293 :> 20013)

\* The ranges of GB18030 for the four-byte sequences followed here: the
\* pointers of U+0080 to U+00A3 and of the code points from U+10000; the
\* pointers between the ranges and beyond them have no code point (-1)
gb18030_ranges(pointer) ==
    IF pointer >= 189000 /\ pointer <= 1237575 THEN 65536 + pointer - 189000
    ELSE IF pointer > 39419 THEN 0 - 1
    ELSE [q \in 0..35 |-> 128 + q][pointer]

\* GB18030.encode of a sequence of code points
RECURSIVE gb18030_encode(_)
gb18030_encode(cs) ==
    IF cs = <<>> THEN <<>>
    ELSE LET c == cs[1]
             two == {q \in DOMAIN gb18030_index : gb18030_index[q] = c}
             q2 == CHOOSE q \in two : TRUE
             trail == q2 % 190
             q4 == IF c >= 65536 THEN c - 65536 + 189000
                   ELSE [d \in 128..163 |-> d - 128][c]
         IN  (IF c < 128 THEN <<c>>
              ELSE IF two # {}
              THEN <<(q2 \div 190) + 129, trail + (IF trail < 63 THEN 64 ELSE 65)>>
              ELSE <<(q4 \div 12600) + 129, ((q4 \div 1260) % 10) + 48,
                     ((q4 \div 10) % 126) + 129, (q4 % 10) + 48>>)
             \o gb18030_encode(Tail(cs))

\* the GB18030 decoder of encoding_rs: one U+FFFD for each malformed
\* sequence, an ASCII byte that ends one is read again
RECURSIVE gb18030_decode(_)
gb18030_decode(b) ==
    IF b = <<>> THEN <<>>
    ELSE LET c == b[1]
             from(k) == gb18030_decode(SubSeq(b, k, Len(b)))
             bad(k) == <<REPLACEMENT_CHARACTER>> \o from(k)
             digit(k) == b[k] >= 48 /\ b[k] <= 57
             lead(k) == b[k] >= 129 /\ b[k] <= 254
             q4 == (c - 129) * 12600 + (b[2] - 48) * 1260 + (b[3] - 129) * 10 + b[4] - 48
             q2 == (c - 129) * 190 + b[2] - (IF b[2] < 127 THEN 64 ELSE 65)
         IN  IF c < 128 THEN <<c>> \o from(2)
             ELSE IF c = 128 THEN <<8364>> \o from(2)
             ELSE IF c = 255 THEN bad(2)
             ELSE IF Len(b) = 1 THEN <<REPLACEMENT_CHARACTER>>
             ELSE IF digit(2)
             THEN IF Len(b) = 2 THEN <<REPLACEMENT_CHARACTER>>
                  ELSE IF ~lead(3) THEN bad(2)
                  ELSE IF Len(b) = 3 THEN <<REPLACEMENT_CHARACTER>>
                  ELSE IF ~digit(4) THEN bad(2)
                  ELSE IF gb18030_ranges(q4) = 0 - 1 THEN bad(5)
                  ELSE <<gb18030_ranges(q4)>> \o from(5)
             ELSE IF (b[2] >= 64 /\ b[2] <= 126) \/ (b[2] >= 128 /\ b[2] <= 254)
             THEN <<gb18030_index[q2]>> \o from(3)
             ELSE IF b[2] < 128 THEN bad(2) ELSE bad(3)

\* Encoding::decode of encoding_rs: a byte order mark at the head of the
\* bytes chooses the decoder and is left out
decode(encoding, bytes) ==
    LET has(bom) == Len(bytes) >= Len(bom) /\ SubSeq(bytes, 1, Len(bom)) = bom
        rest(k) == SubSeq(bytes, k + 1, Len(bytes))
    IN  IF has(<<239, 187, 191>>) THEN chars(rest(3))
        ELSE IF has(<<255, 254>>) THEN utf16_decode(rest(2), FALSE)
        ELSE IF has(<<254, 255>>) THEN utf16_decode(rest(2), TRUE)
        ELSE IF encoding = ENC_UTF16LE THEN utf16_decode(bytes, FALSE)
        ELSE gb18030_decode(bytes)

\* encode_string: the bytes of the string in the encoding, and the terminator
rw_encode_string(encoding, value) ==
    IF encoding = ENC_UTF16LE
    THEN LET units == encode_utf16(chars(value))
         IN  [j \in 1..(2 * Len(units)) |->
                 IF j % 2 = 1 THEN units[(j + 1) \div 2] % 256
                 ELSE units[j \div 2] \div 256]
             \o <<0, 0>>
    ELSE IF encoding = ENC_GB18030 THEN gb18030_encode(chars(value)) \o <<0>>
    ELSE value \o <<0>>

\* find_string_end: the position of the terminator from start on, or the
\* position the scan stops at
RECURSIVE rw_find_string_end(_, _, _)
rw_find_string_end(data, start, encoding) ==
    IF encoding = ENC_UTF16LE
    THEN IF start + 1 < Len(data) /\ (data[start + 1] # 0 \/ data[start + 2] # 0)
         THEN rw_find_string_end(data, start + 2, encoding) ELSE start
    ELSE IF start < Len(data) /\ data[start + 1] # 0
         THEN rw_find_string_end(data, start + 1, encoding) ELSE start

\* String::from_utf8 accepts the bytes: they are well-formed UTF-8
RECURSIVE rw_utf8_ok(_)
rw_utf8_ok(b) ==
    LET cont(k) == Len(b) >= k /\ b[k] >= 128 /\ b[k] <= 191
    IN  IF b = <<>> THEN TRUE
        ELSE IF b[1] < 128 THEN rw_utf8_ok(Tail(b))
        ELSE IF b[1] >= 194 /\ b[1] <= 223
             THEN cont(2) /\ rw_utf8_ok(SubSeq(b, 3, Len(b)))
        ELSE IF b[1] >= 224 /\ b[1] <= 239
             THEN /\ cont(2) /\ cont(3)
                  /\ b[1] = 224 => b[2] >= 160
                  /\ b[1] = 237 => b[2] <= 159
                  /\ rw_utf8_ok(SubSeq(b, 4, Len(b)))
        ELSE IF b[1] >= 240 /\ b[1] <= 244
             THEN /\ cont(2) /\ cont(3) /\ cont(4)
                  /\ b[1] = 240 => b[2] >= 144
                  /\ b[1] = 244 => b[2] <= 143
                  /\ rw_utf8_ok(SubSeq(b, 5, Len(b)))
        ELSE FALSE

\* decode_string: the String of the bytes, absent for ASCII bytes that are
\* not well-formed UTF-8
rw_decode_string(encoding, bytes) ==
    IF encoding = ENC_ASCII
    THEN IF rw_utf8_ok(bytes) THEN <<bytes>> ELSE Absent
    ELSE <<to_string(decode(encoding, bytes))>>

\* str(encoding, index, value): [ret, data]; every encoding byte other than
\* 2, 3 and 4 is refused
rw_str(data, v, encoding, index, value) ==
    LET actual_index == v.offset + index
    IN  IF encoding \notin {ENC_GB18030, ENC_UTF16LE, ENC_ASCII}
        THEN [ret |-> Absent, data |-> data]
        ELSE IF value # Absent
        THEN LET encoded_bytes == rw_encode_string(encoding, value[1])
             IN  IF actual_index + Len(encoded_bytes) > Len(data)
                 THEN [ret |-> Absent, data |-> data]
                 ELSE [ret |-> value, data |-> rw_put(data, actual_index, encoded_bytes)]
        ELSE LET end_index == rw_find_string_end(data, actual_index, encoding)
                 bytes == SubSeq(data, actual_index + 1, end_index)
             IN  IF end_index <= actual_index \/ end_index > Len(data)
                 THEN [ret |-> Absent, data |-> data]
                 ELSE [ret |-> rw_decode_string(encoding, bytes), data |-> data]

\* deep_clone: a new byte vector with the same bytes, the same window
rw_deep_clone(m, v) ==
    [bufs |-> Append(m.bufs, m.bufs[v.buf]),
     views |-> Append(m.views, View(Len(m.bufs) + 1, v.offset, v.len))]

\* an accessor call: its name, its len argument (vec; str: the encoding) and
\* its value argument, absent or a tuple that holds the value (a u32 as its
\* halves, a vec or a string as its bytes); the bytes a call reaches are size
\* of them from index (a str read: up to its terminator).  The bytes written
\* are ones the index of GB18030 above reads back
RwCalls ==
    {[kind |-> "u8", len |-> Absent, value |-> x, size |-> 1] : x \in {Absent, << <<144>> >>}}
    \cup {[kind |-> "u16", len |-> Absent, value |-> x, size |-> 2] :
            x \in {Absent, << <<42664>> >>}}
    \cup {[kind |-> "i16", len |-> Absent, value |-> x, size |-> 2] :
            x \in {Absent, << <<0 - 2>> >>}}
    \cup {[kind |-> "u32", len |-> Absent, value |-> x, size |-> 4] :
            x \in {Absent, << <<42664, 12849>> >>}}
    \cup {[kind |-> "vec", len |-> <<2>>, value |-> x, size |-> 2] :
            x \in {Absent, << <<214, 208>> >>}}
    \cup {[kind |-> "str", len |-> <<ENC_ASCII>>, value |-> x,
            size |-> IF x = Absent THEN 0 ELSE Len(rw_encode_string(ENC_ASCII, x[1]))] :
            x \in {Absent, << <<72, 105>> >>, << <<90>> >>}}
    \cup {[kind |-> "str", len |-> <<enc>>, value |-> << <<65>> >>,
            size |-> Len(rw_encode_string(enc, <<65>>))] : enc \in {ENC_UTF16LE, 1}}
    \cup {[kind |-> "str", len |-> <<enc>>, value |-> Absent, size |-> 0] :
            enc \in {ENC_GB18030, ENC_UTF16LE}}
    \cup {[kind |-> "str", len |-> <<enc>>, value |-> << <<195, 169>> >>,
            size |-> Len(rw_encode_string(enc, <<195, 169>>))] :
            enc \in {ENC_GB18030, ENC_UTF16LE}}

\* the accessor a call names, applied
rw_call(data, v, index, call) ==
    LET scalar == IF call.value = Absent THEN Absent ELSE <<call.value[1][1]>>
    IN  IF call.kind = "u8" THEN rw_u8(data, v, index, scalar)
        ELSE IF call.kind = "u16" THEN rw_u16(data, v, index, scalar)
        ELSE IF call.kind = "i16" THEN rw_i16(data, v, index, scalar)
        ELSE IF call.kind = "u32" THEN rw_u32(data, v, index, call.value)
        ELSE IF call.kind = "str" THEN rw_str(data, v, call.len[1], index, call.value)
        ELSE rw_vec(data, v, index, call.len, call.value)

\* hist.from tells, for each view, the view and index ref_at made it from
\* (view 0: made by new, clone or deep_clone), hist.written that a value was
\* written: a behaviour has one write
InitRw ==
    /\ InitDecoder
    /\ reqs = <<>>
    /\ locks = [map |-> 0, codec |-> 0]
    /\ listener = [pc |-> "idle", frame |-> <<>>]
    /\ all = [pc |-> "idle"]
    /\ wire = <<>>
    /\ mem = [bufs |-> <<[j \in 1..RwLen |-> j]>>, views |-> <<View(1, 0, RwLen)>>]
    /\ last = [op |-> "new", view |-> 1, index |-> 0, size |-> 0, value |-> Absent,
               ret |-> Absent, pre |-> <<>>, quiet |-> FALSE]
    /\ hist = [from |-> <<[view |-> 0, index |-> 0]>>, written |-> FALSE]

\* the last call changed no byte and kept no view (a read, a ref_at whose
\* result was dropped), so what can follow it can follow the state before it;
\* behaviours are followed up to their first such call
RwRead == last.quiet

\* ref_at on view p; the view it returns is kept while there is room
RwRefAt(p, index, len) ==
    /\ ~RwRead
    /\ p \in DOMAIN mem.views
    /\ LET ret == rw_ref_at(mem.bufs[mem.views[p].buf], mem.views[p], index, len)
           kept == IF Len(mem.views) < MaxViews THEN ret ELSE <<>>
       IN  /\ mem' = [mem EXCEPT !.views = mem.views \o kept]
           /\ hist' = [hist EXCEPT !.from =
                         IF kept = <<>> THEN hist.from
                         ELSE Append(hist.from, [view |-> p, index |-> index])]
           /\ last' = [op |-> "ref_at", view |-> p, index |-> index, size |-> len,
                       value |-> Absent, ret |-> ret, pre |-> mem.bufs,
                       quiet |-> kept = <<>>]
    /\ UNCHANGED <<decoder, wire, callers>>

\* clone (derived): the same byte vector and window
RwClone(p) ==
    /\ ~RwRead
    /\ p \in DOMAIN mem.views
    /\ Len(mem.views) < MaxViews
    /\ mem' = [mem EXCEPT !.views = Append(mem.views, mem.views[p])]
    /\ hist' = [hist EXCEPT !.from = Append(hist.from, [view |-> 0, index |-> 0])]
    /\ last' = [op |-> "clone", view |-> p, index |-> 0, size |-> 0, value |-> Absent,
                ret |-> <<mem.views[p]>>, pre |-> mem.bufs, quiet |-> FALSE]
    /\ UNCHANGED <<decoder, wire, callers>>

RwDeepClone(p) ==
    /\ ~RwRead
    /\ p \in DOMAIN mem.views
    /\ Len(mem.views) < MaxViews
    /\ mem' = rw_deep_clone(mem, mem.views[p])
    /\ hist' = [hist EXCEPT !.from = Append(hist.from, [view |-> 0, index |-> 0])]
    /\ last' = [op |-> "deep_clone", view |-> p, index |-> 0, size |-> 0,
                value |-> Absent, ret |-> <<mem'.views[Len(mem'.views)]>>,
                pre |-> mem.bufs, quiet |-> FALSE]
    /\ UNCHANGED <<decoder, wire, callers>>

\* a typed accessor is called on view p
RwAccess(p, index, call) ==
    /\ ~RwRead
    /\ p \in DOMAIN mem.views
    /\ call.value # Absent => ~hist.written
    /\ LET v == mem.views[p]
           r == rw_call(mem.bufs[v.buf], v, index, call)
       IN  /\ mem' = [mem EXCEPT !.bufs[v.buf] = r.data]
           /\ last' = [op |-> call.kind, view |-> p, index |-> index, size |-> call.size,
                       len |-> call.len, value |-> call.value, ret |-> r.ret,
                       pre |-> mem.bufs, quiet |-> call.value = Absent]
    /\ hist' = [hist EXCEPT !.written = hist.written \/ call.value # Absent]
    /\ UNCHANGED <<decoder, wire, callers>>

NextRw ==
    \/ \E p \in 1..MaxViews, index \in {0, 1, 2}, len \in {1, 2, RwLen} :
         RwRefAt(p, index, len)
    \/ \E p \in 1..MaxViews : RwClone(p)
    \/ \E p \in 1..MaxViews : RwDeepClone(p)
    \/ \E p \in 1..MaxViews, index \in 0..RwLen, call \in RwCalls : RwAccess(p, index, call)

SpecRw == InitRw /\ [][NextRw]_vars

\* the last call was a typed accessor
RwAccessed == last.op \in {"u8", "u16", "i16", "u32", "vec"}

\* the last call was an accessor that can write: a typed accessor or str
RwCalled == RwAccessed \/ last.op = "str"

\* C19 as stated: a typed accessor whose byte range is not inside the window
\* of its view returns absent and leaves every byte as it was.
C19_OutOfRangeAsStated ==
    (RwAccessed /\ last.index + last.size > mem.views[last.view].len) =>
        /\ last.ret = Absent
        /\ mem.bufs = last.pre

\* the bytes a write puts into the byte vector, from its value argument
RwWritten ==
    LET x == last.value[1]
    IN  IF last.op = "u8" THEN x
        ELSE IF last.op = "u16" THEN <<x[1] % 256, x[1] \div 256>>
        ELSE IF last.op = "i16" THEN <<(x[1] + 65536) % 256, ((x[1] + 65536) \div 256) % 256>>
        ELSE IF last.op = "u32" THEN <<x[1] % 256, x[1] \div 256, x[2] % 256, x[2] \div 256>>
        ELSE IF last.op = "str" THEN rw_encode_string(last.len[1], x)
        ELSE x

\* byte i of view w, read through w
RwByte(w, i) == rw_read_u8(mem.bufs[w.buf], w, i)

\* C20 as stated: ref_at(index, len) returns a view of len bytes whose byte i
\* is the parent's byte index + i, and absent exactly when the range does not
\* fit the parent (index + len exceeds the parent's length); the bytes of a
\* kept sub-view stay the parent's bytes after a write; a write through a view
\* is read back through every view of the same byte vector that covers a
\* written byte; a deep_clone has a byte vector of its own with the same
\* bytes, and a write changes no byte vector but the one of the view it went
\* through.
C20_AliasingAsStated ==
    /\ last.op = "ref_at" =>
         LET pv == mem.views[last.view]
         IN  /\ last.ret = Absent <=> last.index + last.size > pv.len
             /\ last.ret # Absent =>
                  /\ last.ret[1].len = last.size
                  /\ \A i \in 0..(last.size - 1) :
                       /\ RwByte(last.ret[1], i) # Absent
                       /\ RwByte(last.ret[1], i) = RwByte(pv, last.index + i)
    /\ \A w \in DOMAIN mem.views :
         hist.from[w].view # 0 =>
            \A i \in 0..(mem.views[w].len - 1) :
               RwByte(mem.views[w], i)
                 = RwByte(mem.views[hist.from[w].view], hist.from[w].index + i)
    /\ (RwCalled /\ last.value # Absent /\ last.ret # Absent) =>
         LET pv == mem.views[last.view]
             at == pv.offset + last.index
         IN  /\ \A w \in DOMAIN mem.views, i \in 0..RwLen :
                  (/\ mem.views[w].buf = pv.buf
                   /\ i < mem.views[w].len
                   /\ mem.views[w].offset + i >= at
                   /\ mem.views[w].offset + i < at + last.size) =>
                     RwByte(mem.views[w], i)
                       = <<RwWritten[mem.views[w].offset + i - at + 1]>>
             /\ \A b \in DOMAIN mem.bufs : b # pv.buf => mem.bufs[b] = last.pre[b]
             /\ \A j \in 1..Len(mem.bufs[pv.buf]) :
                  (j <= at \/ j > at + last.size) =>
                      mem.bufs[pv.buf][j] = last.pre[pv.buf][j]
    /\ (RwCalled /\ (last.value = Absent \/ last.ret = Absent)) => mem.bufs = last.pre
    /\ last.op = "deep_clone" =>
         /\ \A w \in 1..(Len(mem.views) - 1) :
               mem.views[w].buf # mem.views[Len(mem.views)].buf
         /\ mem.bufs[mem.views[Len(mem.views)].buf] = mem.bufs[mem.views[last.view].buf]
         /\ mem.views[Len(mem.views)].offset = mem.views[last.view].offset
         /\ mem.views[Len(mem.views)].len = mem.views[last.view].len

\* ---------------------------------------------------------------------------
\* Connection manager: on_connection_changed, reached from the connection
\* callback and from active_mode / passiv_mode, each call on a thread of its
\* caller.  `all` holds the three global maps, the HID endpoint's registered
\* input-report listeners, the holder of the lock of REPORT_CALLBACKS (it is
\* held across an await) and the calls of on_connection_changed in progress;
\* every SafeCallback2::new makes a callback of its own identity (hist.made
\* counts them), and the endpoint removes the listener it is handed.
\* hist.active holds the devices whose newest connection event is an attach,
\* hist.touched those a request, a capability query or a frame was handled for
\* since their newest detach began, hist.refused those the endpoint failed to
\* remove a listener of, hist.detached those a detach has been handled for.
\* ---------------------------------------------------------------------------
Devices == {1, 2}

MaxAttaches == 2
\* calls of on_connection_changed in progress at a time
MaxConnCalls == 2

ConnIdle == [pc |-> "idle", uuid |-> 0, cb |-> 0]

InitConn ==
    /\ InitDecoder
    /\ reqs = <<>>
    /\ locks = [map |-> 0, codec |-> 0]
    /\ listener = [pc |-> "idle", frame |-> <<>>]
    /\ wire = <<>>
    /\ mem = NoMem
    /\ all = [REPORT_CALLBACKS |-> EmptyMap, REPORT_BUFFER_CODEC |-> {},
              REPORT_ID_CACHE_MAP |-> {}, listeners |-> {}, lock |-> 0,
              calls |-> [c \in 1..MaxConnCalls |-> ConnIdle]]
    /\ last = [op |-> "init", uuid |-> 0]
    /\ hist = [made |-> 0, active |-> {}, touched |-> {}, refused |-> {},
             detached |-> {}]

\* the calls not in progress, and the one a new call takes
ConnFree == {c \in 1..MaxConnCalls : all.calls[c].pc = "idle"}

ConnSlot == CHOOSE c \in ConnFree : \A d \in ConnFree : c <= d

\* a step of call c that is not its return
ConnStep(c) ==
    /\ last' = [op |-> "step", uuid |-> all.calls[c].uuid]
    /\ UNCHANGED <<decoder, wire, reqs, locks, listener, mem, hist>>

\* an attach event (the connection callback with connected = true, or
\* active_mode) up to its first await: require_report_codec, whose try_lock
\* finds the map's lock busy or makes the device's decoder entry
ConnAttach(uuid, busy) ==
    /\ hist.made < MaxAttaches
    /\ ConnFree # {}
    /\ all' = [all EXCEPT
                 !.REPORT_BUFFER_CODEC = IF busy THEN @ ELSE @ \cup {uuid},
                 !.calls[ConnSlot] = [pc |-> "add", uuid |-> uuid, cb |-> hist.made + 1]]
    /\ hist' = [hist EXCEPT !.made = @ + 1, !.active = @ \cup {uuid}]
    /\ last' = [op |-> "step", uuid |-> uuid]
    /\ UNCHANGED <<decoder, wire, reqs, locks, listener, mem>>

\* hid.add_report_listener(&report_callback).await: the endpoint registers the
\* new callback, or fails
ConnAdd(c, added) ==
    /\ all.calls[c].pc = "add"
    /\ all' = [all EXCEPT
                 !.listeners = IF added THEN @ \cup {<<all.calls[c].uuid, all.calls[c].cb>>}
                               ELSE @,
                 !.calls[c].pc = "store"]
    /\ ConnStep(c)

\* REPORT_CALLBACKS.lock().await, insert, and the return of the attach
ConnStore(c) ==
    /\ all.calls[c].pc = "store"
    /\ all.lock = 0
    /\ all' = [all EXCEPT
                 !.REPORT_CALLBACKS = MapPut(@, all.calls[c].uuid, all.calls[c].cb),
                 !.calls[c] = ConnIdle]
    /\ last' = [op |-> "attach", uuid |-> all.calls[c].uuid]
    /\ UNCHANGED <<decoder, wire, reqs, locks, listener, mem, hist>>

\* a detach event (the connection callback with connected = false, or
\* passiv_mode) from REPORT_CALLBACKS.lock().await on: with a callback stored
\* for the device the call keeps the lock for the endpoint's answer
ConnDetach(uuid) ==
    /\ ConnFree # {}
    /\ all.lock = 0
    /\ all' = IF uuid \in DOMAIN all.REPORT_CALLBACKS
              THEN [all EXCEPT
                      !.lock = ConnSlot,
                      !.calls[ConnSlot] = [pc |-> "remove", uuid |-> uuid,
                                           cb |-> all.REPORT_CALLBACKS[uuid]]]
              ELSE [all EXCEPT
                      !.calls[ConnSlot] = [pc |-> "codec", uuid |-> uuid, cb |-> 0]]
    /\ hist' = [hist EXCEPT !.active = @ \ {uuid}, !.touched = @ \ {uuid}]
    /\ last' = [op |-> "step", uuid |-> uuid]
    /\ UNCHANGED <<decoder, wire, reqs, locks, listener, mem>>

\* hid.remove_report_listener(&callback).await, under the lock of
\* REPORT_CALLBACKS: the endpoint removes the stored callback's listener, or
\* fails and the listener stays; the call goes on either way
ConnRemove(c, removed) ==
    /\ all.calls[c].pc = "remove"
    /\ all' = [all EXCEPT
                 !.listeners = IF removed THEN @ \ {<<all.calls[c].uuid, all.calls[c].cb>>}
                               ELSE @,
                 !.calls[c].pc = "forget"]
    /\ hist' = [hist EXCEPT !.refused = IF removed THEN @ ELSE @ \cup {all.calls[c].uuid}]
    /\ last' = [op |-> "step", uuid |-> all.calls[c].uuid]
    /\ UNCHANGED <<decoder, wire, reqs, locks, listener, mem>>

\* report_callbacks.remove(&hid.uuid), and the lock is released
ConnForget(c) ==
    /\ all.calls[c].pc = "forget"
    /\ all' = [all EXCEPT
                 !.REPORT_CALLBACKS = MapRemove(@, all.calls[c].uuid),
                 !.lock = 0,
                 !.calls[c].pc = "codec"]
    /\ ConnStep(c)

\* REPORT_BUFFER_CODEC.lock().await and binding.remove(&hid.uuid)
ConnDropDecoder(c) ==
    /\ all.calls[c].pc = "codec"
    /\ all' = [all EXCEPT
                 !.REPORT_BUFFER_CODEC = @ \ {all.calls[c].uuid},
                 !.calls[c].pc = "cache"]
    /\ ConnStep(c)

\* report_id_map.remove(&hid.uuid), and the return of the detach
ConnDropCache(c) ==
    /\ all.calls[c].pc = "cache"
    /\ all' = [all EXCEPT
                 !.REPORT_ID_CACHE_MAP = @ \ {all.calls[c].uuid},
                 !.calls[c] = ConnIdle]
    /\ last' = [op |-> "detach", uuid |-> all.calls[c].uuid]
    /\ hist' = [hist EXCEPT !.detached = @ \cup {all.calls[c].uuid}]
    /\ UNCHANGED <<decoder, wire, reqs, locks, listener, mem>>

\* SayoDeviceApi::has_report_id(0x21 / 0x22) makes the device's cache entry
ConnHasReportId(uuid) ==
    /\ all' = [all EXCEPT !.REPORT_ID_CACHE_MAP = @ \cup {uuid}]
    /\ last' = [op |-> "has_report_id", uuid |-> uuid]
    /\ hist' = [hist EXCEPT !.touched = @ \cup {uuid}]
    /\ UNCHANGED <<decoder, wire, reqs, locks, listener, mem>>

\* a frame reaches a registered listener: on_report_arrived begins with
\* require_report_codec, which makes the device's decoder when the map has
\* none and its lock is free; with the lock busy the frame is dropped
ConnReport(uuid, busy) ==
    /\ \E l \in all.listeners : l[1] = uuid
    /\ all' = [all EXCEPT !.REPORT_BUFFER_CODEC = IF busy THEN @ ELSE @ \cup {uuid}]
    /\ last' = [op |-> "report", uuid |-> uuid]
    /\ hist' = [hist EXCEPT !.touched = @ \cup {uuid}]
    /\ UNCHANGED <<decoder, wire, reqs, locks, listener, mem>>

\* a request on the device's handle: request_with_header begins with
\* require_report_codec, which makes the device's decoder when the map has
\* none and its lock is free; the rest of the call works on the decoder and
\* leaves the maps as they are
ConnRequest(uuid, busy) ==
    /\ all' = [all EXCEPT !.REPORT_BUFFER_CODEC = IF busy THEN @ ELSE @ \cup {uuid}]
    /\ last' = [op |-> "request", uuid |-> uuid]
    /\ hist' = [hist EXCEPT !.touched = @ \cup {uuid}]
    /\ UNCHANGED <<decoder, wire, reqs, locks, listener, mem>>

NextConn ==
    \/ \E uuid \in Devices, busy \in BOOLEAN : ConnRequest(uuid, busy)
    \/ \E uuid \in Devices, busy \in BOOLEAN : ConnAttach(uuid, busy)
    \/ \E c \in 1..MaxConnCalls, added \in BOOLEAN : ConnAdd(c, added)
    \/ \E c \in 1..MaxConnCalls : ConnStore(c)
    \/ \E uuid \in Devices : ConnDetach(uuid)
    \/ \E c \in 1..MaxConnCalls, removed \in BOOLEAN : ConnRemove(c, removed)
    \/ \E c \in 1..MaxConnCalls : ConnForget(c)
    \/ \E c \in 1..MaxConnCalls : ConnDropDecoder(c)
    \/ \E c \in 1..MaxConnCalls : ConnDropCache(c)
    \/ \E uuid \in Devices : ConnHasReportId(uuid)
    \/ \E uuid \in Devices, busy \in BOOLEAN : ConnReport(uuid, busy)

SpecConn == InitConn /\ [][NextConn]_vars

\* no call of on_connection_changed is in progress for the device
ConnQuiet(uuid) ==
    \A c \in 1..MaxConnCalls : all.calls[c].pc # "idle" => all.calls[c].uuid # uuid

\* nothing of the library is left for the device
ConnClean(uuid) ==
    /\ \A l \in all.listeners : l[1] # uuid
    /\ uuid \notin DOMAIN all.REPORT_CALLBACKS
    /\ uuid \notin all.REPORT_BUFFER_CODEC
    /\ uuid \notin all.REPORT_ID_CACHE_MAP

\* C21 as stated: once a detach event of a device has been handled, it being
\* the device's newest connection event, none of its events in progress,
\* nothing else handled for the device since the detach began and no removal
\* of a listener of the device failed at the endpoint, no input-report
\* listener of the library is registered for the device and the decoder map,
\* the listener-callback map and the capability cache hold no entry for it
C21_DetachCleanAsStated ==
    (/\ last.op = "detach"
     /\ last.uuid \notin hist.active
     /\ last.uuid \notin hist.touched
     /\ last.uuid \notin hist.refused
     /\ ConnQuiet(last.uuid)) =>
        ConnClean(last.uuid)

\* ---------------------------------------------------------------------------
\* C22: the input listener and the locks (SpecReq)
\* ---------------------------------------------------------------------------

\* a step of on_report_arrived that finds the lock it tries held by another task
ListenerFindsBusy ==
    \/ listener.pc = "idle" /\ hist'.frames # hist.frames /\ locks.map # 0
    \/ listener.pc = "lock" /\ listener'.pc # "lock" /\ locks.codec # 0

\* C22: the listener never waits for a lock.  Wherever on_report_arrived
\* stands, its next step can be taken whoever holds the decoder-map lock or the
\* decoder lock; a step that finds the lock it tries held by another task ends
\* the call with the frame dropped, the segment buffers, awaiter queues,
\* channels and screen mirror as they were, and no lock of the other task taken
C22_ListenerNeverWaits ==
    /\ [](listener.pc = "lookup" => ENABLED ListenerLookup)
    /\ [](listener.pc = "lock" => ENABLED ListenerLock)
    /\ [](listener.pc = "join" => ENABLED ListenerJoin)
    /\ [](listener.pc \in {"idle", "lock"} => locks.map # Listener /\ locks.codec # Listener)
    /\ [][ListenerFindsBusy =>
            /\ listener'.pc = "idle"
            /\ UNCHANGED decoder
            /\ locks'.codec = locks.codec
            /\ locks'.map \in {0, locks.map}
            /\ locks'.map # Listener]_vars

\* every frame that arrived found a lock busy and was dropped: the listener is
\* idle again, no frame has reached join, and a request holds the decoder lock
C22_Witness ==
    /\ hist.frames > 0
    /\ listener.pc = "idle"
    /\ hist.run = EmptyMap
    /\ locks.codec \notin {0, Listener}

\* ---------------------------------------------------------------------------
\* SpecRaw: ReportDecoder::join on frames as a device or a faulty line can put
\* them on the wire: any len field, echo 0 or ECHO, a checksum that matches or
\* not, with awaiters registered and a screen mirror sized by a call of
\* pull_screen_buffer, at the key of the frames and at another key.  A
\* behaviour has the frames of one key (hist.key):
\* continue frames that are buffered, and the frame that follows them.  A
\* fault of join ends the behaviour.
\* ---------------------------------------------------------------------------

\* awaiters registered, and calls of join, in one behaviour
RawAwaiters == 2

RawJoins == 2

\* the mirror length pull_screen_buffer asks for
RawScreenLen == 4

\* a frame of 8 + Len(body) bytes whose len field is `len`; sum tells whether
\* its checksum field matches
raw_frame(report_id, echo, cmd, index, status, len, body, sum) ==
    LET h1 == [Zeros(HEADER_SIZE) EXCEPT ![1] = report_id, ![2] = echo,
                                         ![7] = cmd, ![8] = index]
        data == hdr_set_sta_len(h1, status, len) \o body
        crc == IF sum THEN get_crc16(data) ELSE (get_crc16(data) + 1) % 65536
    IN  [data EXCEPT ![3] = crc % 256, ![4] = crc \div 256]

RawKeys == {Key(REPORT_ID_21, c, 0) : c \in {StringContentCMD, ScreenBufferCMD, BroadCastCMD}}

\* bodies with the len field that goes with them (body length + 4), and len
\* fields that do not: below 4, and beyond the frame.  The bodies of cmd 0x25
\* are an address and bytes: inside a mirror of RawScreenLen bytes, across its
\* end, at its end and beyond it
RawBodies(cmd) ==
    {[body |-> b, len |-> Len(b) + 4] :
        b \in {<<>>, <<7, 7>>} \cup
              (IF cmd = ScreenBufferCMD
               THEN {<<1, 0, 0, 0, 7, 9>>, <<3, 0, 0, 0, 7, 9>>,
                     <<4, 0, 0, 0, 7>>, <<5, 0, 0, 0, 7>>,
                     <<255, 255, 255, 255, 1>>}
               ELSE {})}
    \cup {[body |-> <<>>, len |-> 0], [body |-> <<>>, len |-> 3],
          [body |-> <<7, 7>>, len |-> 20]}

\* frames that fail one or several of join's tests at once: a report id that
\* is not supported (5), an echo that is neither the client's nor 0 (7), a
\* checksum that does not match, a len field beyond the frame, and frames of
\* fewer than 8 bytes
RawInvalid(k) ==
    {raw_frame(r, e, k[2], k[3], 0, len, <<7, 7>>, sum) :
        r \in {k[1], 5}, e \in {ECHO, 0, 7}, len \in {6, 20}, sum \in BOOLEAN}
    \cup {SubSeq(raw_frame(r, ECHO, k[2], k[3], 0, 4, <<>>, TRUE), 1, n) :
        r \in {k[1], 5}, n \in {0, 7}}

\* the frames of key k: terminal frames with every body of its cmd, continue
\* frames with the bodies every cmd has
RawFrames(k) ==
    {raw_frame(k[1], e, k[2], k[3], 0, b.len, b.body, TRUE) :
        e \in {0, ECHO}, b \in RawBodies(k[2])}
    \cup {raw_frame(k[1], e, k[2], k[3], 1, b.len, b.body, TRUE) :
        e \in {0, ECHO}, b \in RawBodies(StringContentCMD)}
    \cup {raw_frame(k[1], e, k[2], k[3], 0, 6, <<7, 7>>, FALSE) : e \in {0, ECHO}}
    \cup RawInvalid(k)

\* the decoder as one value
RawDecoder ==
    [buffers |-> buffers, waiter_channels |-> waiter_channels,
     screen_buffer |-> screen_buffer, chan |-> chan, broadcasts |-> broadcasts]

InitRaw ==
    /\ InitDecoder
    /\ InitCallers
    /\ wire = <<>>
    /\ mem = NoMem
    /\ last = [op |-> "new", res |-> "None", frame |-> <<>>, pre |-> <<>>]
    /\ \E k \in RawKeys : hist = [joins |-> 0, key |-> k]

\* join has not faulted
RawRunning == last.res # "Panic"

\* the awaiters are registered, their futures dropped and the mirror sized
\* before the frames arrive
RawSetup == RawRunning /\ hist.joins = 0

\* request_response registers an awaiter
RawRegister(handle) ==
    /\ RawSetup
    /\ Len(chan) < RawAwaiters
    /\ chan' = Append(chan, Channel(handle, TagOf(handle[2])))
    /\ waiter_channels' = register(waiter_channels, handle, Len(chan) + 1)
    /\ last' = [op |-> "register", res |-> "None", frame |-> <<>>, pre |-> <<>>]
    /\ UNCHANGED <<buffers, screen_buffer, broadcasts, wire, mem, hist, callers>>

\* the future of a request is dropped before it has a value
RawDrop(tx) ==
    /\ RawSetup
    /\ tx \in DOMAIN chan
    /\ chan[tx].rx = "open"
    /\ chan[tx].val = <<>>
    /\ chan' = [chan EXCEPT ![tx].rx = "dropped"]
    /\ last' = [op |-> "drop", res |-> "None", frame |-> <<>>, pre |-> <<>>]
    /\ UNCHANGED <<buffers, waiter_channels, screen_buffer, broadcasts, wire, mem, hist,
                   callers>>

\* pull_screen_buffer sizes the mirror (where the frames are those of cmd 0x25)
RawResize(len) ==
    /\ RawSetup
    /\ hist.key[2] = ScreenBufferCMD
    /\ Len(screen_buffer) # len
    /\ screen_buffer' = resize_screen_buffer(len)
    /\ last' = [op |-> "resize", res |-> "None", frame |-> <<>>, pre |-> <<>>]
    /\ UNCHANGED <<buffers, waiter_channels, chan, broadcasts, wire, mem, hist, callers>>

\* the last call of join buffered a segment: a response is in progress
RawInProgress == last.op = "join" /\ buffers # last.pre.buffers

\* one call of join: the first frame, or the frame that follows a buffered one
RawJoin(packet) ==
    /\ RawRunning
    /\ hist.joins < RawJoins
    /\ hist.joins = 0 \/ RawInProgress
    /\ \E r \in {join(packet)} :
          /\ buffers' = r.buffers
          /\ waiter_channels' = r.waiter_channels
          /\ screen_buffer' = r.screen_buffer
          /\ chan' = r.chan
          /\ broadcasts' = r.broadcasts
          /\ last' = [op |-> "join", res |-> r.res, frame |-> packet, pre |-> RawDecoder]
    /\ hist' = [hist EXCEPT !.joins = @ + 1]
    /\ UNCHANGED <<wire, mem, callers>>

NextRaw ==
    \/ \E handle \in {hist.key, OtherKey(hist.key)} : RawRegister(handle)
    \/ \E tx \in 1..RawAwaiters : RawDrop(tx)
    \/ RawResize(RawScreenLen)
    \/ \E packet \in RawFrames(hist.key) : RawJoin(packet)

SpecRaw == InitRaw /\ [][NextRaw]_vars

\* C23 as stated: join returns Ok or an error value for every frame of at
\* least 8 bytes, whatever its len field, and never faults
C23_NeverFaultsAsStated ==
    (last.op = "join" /\ Len(last.frame) >= HEADER_SIZE) =>
        last.res \in {"Ok", "BadReportLength", "CrcError", "BadHeaderLength",
                      "BadReportHeader"}

\* ---------------------------------------------------------------------------
\* C24: the body an awaiter is handed (SpecCrc)
\* ---------------------------------------------------------------------------

\* C24 as stated: the body delivered to an awaiter of the key is the payload of
\* one complete response; after a frame of the response was rejected for its
\* checksum, no awaiter is handed a body other than the whole payload
C24_WholeBodyAsStated ==
    [][(last.op = "join" /\ last.res = "CrcError" /\ hist.enc # <<>>
          /\ Encoded.cmd # ScreenBufferCMD) =>
            \A tx \in DOMAIN chan :
                (chan[tx].val = <<>> /\ chan'[tx].val # <<>>) =>
                    chan'[tx].val[1].data = Encoded.value.bytes]_vars

\* ---------------------------------------------------------------------------
\* C25: late replies (SpecReq)
\* ---------------------------------------------------------------------------

\* C25 as stated, for a device that answers each request once: when the device
\* has sent a single frame, a request q of the key was sent in full and timed
\* out, and a later request r of the key has registered its awaiter but has
\* not sent its frame yet, the frame is the late reply to q and r holds no
\* response
C25_OwnReplyAsStated ==
    \A q \in DOMAIN reqs, r \in DOMAIN reqs :
        (/\ q < r
         /\ reqs[q].key = reqs[r].key
         /\ reqs[q].end = "timeout"
         /\ reqs[r].pc = "send"
         /\ hist.frames = 1) =>
            chan[reqs[r].tx].val = <<>>

\* ---------------------------------------------------------------------------
\* C26: request_with_header beside the input listener (SpecReq)
\* ---------------------------------------------------------------------------

\* C26 as stated: a call of request_with_header that reaches its try_lock of
\* the decoder lock while the listener holds that lock (a received frame is in
\* join) does not fault, and a call sends a frame only once its awaiter is
\* registered
C26_NoFaultAsStated ==
    /\ [][\A r \in DOMAIN reqs :
            (reqs[r].pc = "lock" /\ locks.codec = Listener) =>
                reqs'[r].pc # "panicked"]_vars
    /\ [](\A r \in DOMAIN reqs : reqs[r].pc \in {"send", "await"} => reqs[r].tx # 0)

\* ---------------------------------------------------------------------------
\* SpecLock: the locks of the listener path and of a request, one lock
\* operation per step.  locks maps each lock to its holder (0 when free);
\* a task is the list of the operations it still has to run:
\*   <<"try", l>>     try_lock, the call returns when the lock is held
\*   <<"expect", l>>  try_lock().expect(..), a panic when the lock is held
\*   <<"lock", l>>    std::sync::Mutex::lock, waits while the lock is held
\*   <<"free", l>>    the guard is dropped
\*   <<"join">>       ReportDecoder::join begins (under the decoder lock)
\*   <<"register">>   request_response pushes the sender
\*   <<"call", f>>    the broadcast handler is invoked or a response is sent
\* ---------------------------------------------------------------------------
LockNames ==
    {"REPORT_BUFFER_CODEC", "decoder", "buffers", "waiter_channels", "BROADCAST_CALLBACKS"}

\* frames the device sends, and calls of request, in one behaviour
LockFrames == 2

LockRequests == 2

\* on_report_arrived up to the call of join
on_report_arrived_ops ==
    <<<<"try", "REPORT_BUFFER_CODEC">>, <<"free", "REPORT_BUFFER_CODEC">>,
      <<"try", "decoder">>, <<"join">>>>

\* what join runs on an accepted frame, from the buffer lock on, and the
\* release of the decoder lock that follows it in on_report_arrived
join_ops(packet) ==
    LET handle == Key(hdr_report_id(packet), hdr_cmd(packet), hdr_index(packet))
        queue == IF handle \in DOMAIN waiter_channels THEN waiter_channels[handle] ELSE <<>>
        complete ==
            IF hdr_echo(packet) = 0 /\ hdr_cmd(packet) = BroadCastCMD
            THEN <<<<"call", "handler">>, <<"expect", "BROADCAST_CALLBACKS">>,
                   <<"free", "BROADCAST_CALLBACKS">>>>
            ELSE IF hdr_cmd(packet) = ScreenBufferCMD THEN <<>>
            ELSE <<<<"lock", "waiter_channels">>, <<"free", "waiter_channels">>>>
                 \o (IF pop_live(queue).waiter # 0 THEN <<<<"call", "send">>>> ELSE <<>>)
    IN  <<<<"lock", "buffers">>, <<"free", "buffers">>>>
        \o (IF hdr_status(packet) = 1 THEN <<>> ELSE complete)
        \o <<<<"free", "decoder">>>>

\* request_with_header up to the end of request_response
request_with_header_ops ==
    <<<<"try", "REPORT_BUFFER_CODEC">>, <<"free", "REPORT_BUFFER_CODEC">>,
      <<"expect", "decoder">>, <<"lock", "waiter_channels">>, <<"register">>,
      <<"free", "waiter_channels">>, <<"free", "decoder">>>>

\* the locks task t holds
Held(t) == {l \in LockNames : locks[l] = t}

\* every guard of task t is dropped (a return, an unwinding panic)
Released(t) == [l \in LockNames |-> IF locks[l] = t THEN 0 ELSE locks[l]]

InitLock ==
    /\ InitDecoder
    /\ reqs = <<>>
    /\ all = [pc |-> "idle"]
    /\ locks = [l \in LockNames |-> 0]
    /\ listener = [pc |-> "idle", frame |-> <<>>, ops |-> <<>>]
    /\ wire = <<>>
    /\ mem = NoMem
    /\ last = [op |-> <<"init">>, task |-> 0, end |-> ""]
    /\ hist = [frames |-> 0, calls |-> {}]

\* what one operation of task t does to the locks: [locks, end], end being
\* "next", "return" (the call gives up) or "panic"
lock_step(t, op) ==
    IF op[1] \in {"try", "expect", "lock"}
    THEN IF locks[op[2]] = 0
         THEN [locks |-> [locks EXCEPT ![op[2]] = t], end |-> "next"]
         ELSE [locks |-> Released(t), end |-> IF op[1] = "try" THEN "return" ELSE "panic"]
    ELSE IF op[1] = "free"
    THEN [locks |-> [locks EXCEPT ![op[2]] = 0], end |-> "next"]
    ELSE [locks |-> locks, end |-> "next"]

\* a blocking lock is taken only when it is free
can_step(op) == op[1] = "lock" => locks[op[2]] = 0

\* the calls made so far, each with the locks the calling task held
Called(t, op) ==
    IF op[1] = "call"
    THEN [hist EXCEPT !.calls = @ \cup {[f |-> op[2], held |-> Held(t)]}]
    ELSE hist

\* a frame of the device reaches on_report_arrived
LockArrive(packet) ==
    /\ listener.pc = "idle"
    /\ hist.frames < LockFrames
    /\ listener' = [pc |-> "run", frame |-> packet, ops |-> on_report_arrived_ops]
    /\ hist' = [hist EXCEPT !.frames = @ + 1]
    /\ last' = [op |-> <<"arrive">>, task |-> Listener, end |-> "next"]
    /\ UNCHANGED <<decoder, wire, mem, reqs, locks, all>>

\* the next operation of on_report_arrived; join's effect on the decoder is
\* taken when join begins, no other task can see the decoder before the
\* decoder lock is freed
LockListener ==
    /\ listener.pc = "run"
    /\ \E op \in {Head(listener.ops)} : \E s \in {lock_step(Listener, op)} :
          /\ can_step(op)
          /\ locks' = s.locks
          /\ hist' = Called(Listener, op)
          /\ last' = [op |-> op, task |-> Listener, end |-> s.end]
          /\ IF op[1] = "join"
             THEN \E r \in {join(listener.frame)} :
                     /\ buffers' = r.buffers
                     /\ waiter_channels' = r.waiter_channels
                     /\ screen_buffer' = r.screen_buffer
                     /\ chan' = r.chan
                     /\ broadcasts' = r.broadcasts
                     /\ listener' = [listener EXCEPT !.ops = join_ops(listener.frame)]
             ELSE /\ UNCHANGED decoder
                  /\ listener' =
                        IF s.end = "panic"
                        THEN [pc |-> "panicked", frame |-> <<>>, ops |-> <<>>]
                        ELSE IF s.end = "return" \/ Tail(listener.ops) = <<>>
                        THEN [pc |-> "idle", frame |-> <<>>, ops |-> <<>>]
                        ELSE [listener EXCEPT !.ops = Tail(listener.ops)]
    /\ UNCHANGED <<wire, mem, reqs, all>>

\* a call of request_with_header begins
LockRequest(key) ==
    /\ Len(reqs) < LockRequests
    /\ reqs' = Append(reqs, [key |-> key, pc |-> "run", ops |-> request_with_header_ops])
    /\ last' = [op |-> <<"request">>, task |-> Len(reqs) + 1, end |-> "next"]
    /\ UNCHANGED <<decoder, wire, mem, hist, locks, listener, all>>

\* the next operation of a call of request_with_header
LockRequester(t) ==
    /\ t \in DOMAIN reqs
    /\ reqs[t].pc = "run"
    /\ \E op \in {Head(reqs[t].ops)} : \E s \in {lock_step(t, op)} :
          /\ can_step(op)
          /\ locks' = s.locks
          /\ last' = [op |-> op, task |-> t, end |-> s.end]
          /\ IF op[1] = "register"
             THEN /\ chan' = Append(chan, Channel(reqs[t].key, TagOf(reqs[t].key[2])))
                  /\ waiter_channels' = register(waiter_channels, reqs[t].key, Len(chan) + 1)
             ELSE UNCHANGED <<chan, waiter_channels>>
          /\ reqs' = IF s.end = "panic"
                     THEN [reqs EXCEPT ![t].pc = "panicked", ![t].ops = <<>>]
                     ELSE IF s.end = "return" \/ Tail(reqs[t].ops) = <<>>
                     THEN [reqs EXCEPT ![t].pc = "done", ![t].ops = <<>>]
                     ELSE [reqs EXCEPT ![t].ops = Tail(reqs[t].ops)]
    /\ UNCHANGED <<buffers, screen_buffer, broadcasts, wire, mem, hist, listener, all>>

LockKeys == {Key(REPORT_ID_21, StringContentCMD, 0), Key(REPORT_ID_21, BroadCastCMD, 0)}

LockInputs ==
    {build_frame(k[1], e, k[2], k[3], s, <<7>>) :
        k \in LockKeys \cup {Key(REPORT_ID_21, ScreenBufferCMD, 0)}, e \in {0, ECHO}, s \in {0, 1}}

NextLock ==
    \/ \E packet \in LockInputs : LockArrive(packet)
    \/ LockListener
    \/ \E key \in LockKeys : LockRequest(key)
    \/ \E t \in 1..LockRequests : LockRequester(t)

SpecLock == InitLock /\ [][NextLock]_vars

\* C27 as stated: the broadcast handler is invoked by a task that holds none of
\* the decoder lock, the segment-buffer lock, the awaiter-table lock and the
\* global map locks, and a response is sent to an awaiter by a task that does
\* not hold the awaiter-table lock
C27_NoLockHeldAsStated ==
    \A c \in hist.calls :
        /\ c.f = "handler" => c.held = {}
        /\ c.f = "send" => "waiter_channels" \notin c.held

\* ---------------------------------------------------------------------------
\* C28, C29, C30: what a frame does to the awaiters and the mirror (SpecRaw)
\* ---------------------------------------------------------------------------

\* the senders that the last call of join handed a value
RawHanded == {tx \in DOMAIN chan : chan[tx].val # last.pre.chan[tx].val}

\* C28 as stated: a frame with echo 0 and a cmd other than 0xFF, and a frame
\* whose checksum does not match, hands no value to an awaiter
C28_VerifiedOnlyAsStated ==
    (/\ last.op = "join"
     /\ Len(last.frame) >= HEADER_SIZE
     /\ \/ hdr_echo(last.frame) = 0 /\ hdr_cmd(last.frame) # BroadCastCMD
        \/ ~checksum_ok(last.frame)) =>
            RawHanded = {}

\* the last call of join took in a terminal cmd 0x25 frame with the body
\* last.frame carries, with no segment of the key buffered before
RawFill ==
    /\ last.op = "join"
    /\ Len(last.frame) >= HEADER_SIZE
    /\ hdr_report_id(last.frame) \in {REPORT_ID_21, REPORT_ID_22}
    /\ hdr_echo(last.frame) \in {ECHO, 0}
    /\ hdr_cmd(last.frame) = ScreenBufferCMD
    /\ hdr_status(last.frame) # 1
    /\ hdr_len(last.frame) + 4 = Len(last.frame)
    /\ (hdr_echo(last.frame) = 0 \/ checksum_ok(last.frame))
    /\ last.pre.buffers = EmptyMap

RawFillBody == SubSeq(last.frame, HEADER_SIZE + 1, Len(last.frame))

\* the address of that body, when it is below 2^31
RawFillAddr == u32_le(RawFillBody).lo

\* C29 as stated: a cmd 0x25 frame with body (address, bytes) overwrites
\* mirror[address .. min(address + len, mirror length)) with the leading bytes
\* and leaves the mirror's length and every other byte as they were, for every
\* address; a body shorter than 4 bytes changes nothing; join does not fault
C29_FillClipsAsStated ==
    RawFill =>
        /\ last.res = "Ok"
        /\ Len(screen_buffer) = Len(last.pre.screen_buffer)
        /\ \A i \in 1..Len(screen_buffer) :
              screen_buffer[i] =
                 IF /\ Len(RawFillBody) >= 4
                    /\ u32_le(RawFillBody).hi = 0
                    /\ i > RawFillAddr
                    /\ i <= RawFillAddr + Len(RawFillBody) - 4
                 THEN RawFillBody[4 + i - RawFillAddr]
                 ELSE last.pre.screen_buffer[i]

\* the frame of the last call of join passed join's tests
RawAccepted ==
    /\ last.op = "join"
    /\ last.res = "Ok"
    /\ Len(last.frame) >= HEADER_SIZE
    /\ hdr_report_id(last.frame) \in {REPORT_ID_21, REPORT_ID_22}
    /\ hdr_echo(last.frame) \in {ECHO, 0}
    /\ (hdr_echo(last.frame) = 0 \/ checksum_ok(last.frame))

RawHandle == Key(hdr_report_id(last.frame), hdr_cmd(last.frame), hdr_index(last.frame))

RawBroadcast == hdr_echo(last.frame) = 0 /\ hdr_cmd(last.frame) = BroadCastCMD

\* the body of the frame, behind the segments buffered at its key
RawReassembled ==
    (IF RawHandle \in DOMAIN last.pre.buffers THEN last.pre.buffers[RawHandle] ELSE <<>>)
    \o SubSeq(last.frame, HEADER_SIZE + 1, hdr_len(last.frame) + 4)

RawQueueBefore(key) ==
    IF key \in DOMAIN last.pre.waiter_channels THEN last.pre.waiter_channels[key] ELSE <<>>

\* C30: a frame with cmd 0x25 and a broadcast (echo 0, cmd 0xFF) hand no value
\* to an awaiter and leave every awaiter queue as it was, also when awaiters
\* are queued under the frame's own key; an accepted terminal broadcast frame
\* adds exactly one call of the broadcast handler, with the reassembled body,
\* and no other frame adds one; a response frame whose key has no queue or no
\* live awaiter hands no value to anyone, and no frame touches the queue of a
\* key other than its own
C30_Routing ==
    /\ (last.op = "join" /\ Len(last.frame) < HEADER_SIZE) =>
        /\ chan = last.pre.chan
        /\ waiter_channels = last.pre.waiter_channels
        /\ broadcasts = last.pre.broadcasts
    /\ (last.op = "join" /\ Len(last.frame) >= HEADER_SIZE) =>
        /\ (hdr_cmd(last.frame) = ScreenBufferCMD \/ RawBroadcast) =>
              /\ chan = last.pre.chan
              /\ waiter_channels = last.pre.waiter_channels
        /\ broadcasts =
              IF RawAccepted /\ RawBroadcast /\ hdr_status(last.frame) # 1
              THEN Append(last.pre.broadcasts, RawReassembled)
              ELSE last.pre.broadcasts
        /\ (\A i \in 1..Len(RawQueueBefore(RawHandle)) :
               last.pre.chan[RawQueueBefore(RawHandle)[i]].rx = "dropped") =>
              chan = last.pre.chan
        /\ \A key \in RawKeys \cup {OtherKey(hist.key)} :
              key # RawHandle => QueueAt(key) = RawQueueBefore(key)

\* a terminal broadcast of two frames reached the handler once, with both
\* bodies, while a live awaiter queued under (0x21, 0xFF, 0) kept its place
C30_Witness ==
    /\ RawAccepted
    /\ RawBroadcast
    /\ hdr_status(last.frame) # 1
    /\ RawHandle \in DOMAIN last.pre.buffers
    /\ broadcasts = <<<<7, 7, 7, 7>>>>
    /\ QueueAt(RawHandle) # <<>>
    /\ chan[QueueAt(RawHandle)[1]].rx = "open"
    /\ chan[QueueAt(RawHandle)[1]].val = <<>>

\* ---------------------------------------------------------------------------
\* C31: the tests of join and their order (SpecRaw)
\* ---------------------------------------------------------------------------

\* the first test of join the frame fails, in the order the claim gives them
RawVerdict(packet) ==
    IF Len(packet) < HEADER_SIZE THEN "BadHeaderLength"
    ELSE IF hdr_report_id(packet) \notin {REPORT_ID_21, REPORT_ID_22} THEN "Ignored"
    ELSE IF hdr_echo(packet) \notin {ECHO, 0} THEN "Ignored"
    ELSE IF hdr_echo(packet) # 0 /\ ~checksum_ok(packet) THEN "CrcError"
    ELSE IF hdr_len(packet) + 4 > Len(packet) THEN "BadReportLength"
    ELSE "Accepted"

\* C31: join returns BadHeaderLength for a frame of fewer than 8 bytes, Ok for
\* a frame whose report id is neither 0x21 nor 0x22, Ok for a frame whose echo is
\* neither the client echo nor 0, and BadReportLength when len + 4 is beyond
\* the frame, a test that comes after the checksum test (a frame that fails
\* both is a CrcError); in the four cases the segment buffers, the awaiter
\* queues and channels, the mirror and the calls of the handler are as before
C31_Validation ==
    last.op = "join" =>
        /\ RawVerdict(last.frame) = "BadHeaderLength" => last.res = "BadHeaderLength"
        /\ RawVerdict(last.frame) = "Ignored" => last.res = "Ok"
        /\ RawVerdict(last.frame) = "CrcError" => last.res = "CrcError"
        /\ RawVerdict(last.frame) = "BadReportLength" => last.res = "BadReportLength"
        /\ last.res = "BadReportLength" => RawVerdict(last.frame) = "BadReportLength"
        /\ RawVerdict(last.frame) \in {"BadHeaderLength", "Ignored", "BadReportLength"} =>
              RawDecoder = last.pre

\* a frame with echo 0 whose len field is beyond its end was refused while a
\* segment of its key was buffered and a live awaiter was queued at the key
C31_Witness ==
    /\ last.op = "join"
    /\ last.res = "BadReportLength"
    /\ hdr_echo(last.frame) = 0
    /\ RawDecoder = last.pre
    /\ hist.key \in DOMAIN buffers
    /\ hist.key \in DOMAIN waiter_channels
    /\ waiter_channels[hist.key] # <<>>

\* ---------------------------------------------------------------------------
\* C32: the awaiter is queued before the first frame is sent (SpecReq)
\* ---------------------------------------------------------------------------

\* the call has frames to hand to the endpoint, or has handed them all and
\* awaits its response
ReqInFlight(r) == reqs[r].pc \in {"send", "await"}

\* tx is the first sender of the queue whose receiver still listens
FirstLive(queue, tx) ==
    \E i \in 1..Len(queue) :
       /\ queue[i] = tx
       /\ chan[tx].rx = "open"
       /\ \A j \in 1..(i - 1) : chan[queue[j]].rx = "dropped"

\* C32: from before its first frame is handed to the endpoint until it
\* returns, a call of request_with_header has its sender queued at
\* (report_id, cmd, index), or has been handed a response already; so a
\* terminal frame of the key that join takes in while the call sends or
\* awaits, with no live awaiter queued ahead of the call's, is handed to the
\* call's awaiter
C32_RegisteredBeforeSend ==
    \A r \in DOMAIN reqs :
       ReqInFlight(r) =>
          /\ reqs[r].tx \in DOMAIN chan
          /\ chan[reqs[r].tx].key = reqs[r].key
          /\ \/ \E i \in 1..Len(QueueAt(reqs[r].key)) : QueueAt(reqs[r].key)[i] = reqs[r].tx
             \/ chan[reqs[r].tx].val # <<>>
          /\ (/\ Dispatched
              /\ last.key = reqs[r].key
              /\ FirstLive(last.pre, reqs[r].tx)) =>
                 /\ last.tx = reqs[r].tx
                 /\ chan[reqs[r].tx].val # <<>>

\* a response arrived after the call had handed its frame to the endpoint and
\* was handed to the call's awaiter, which had been queued since before the send
C32_Witness ==
    \E r \in DOMAIN reqs :
       /\ reqs[r].pc = "await"
       /\ wire # <<>>
       /\ Dispatched
       /\ last.tx = reqs[r].tx
       /\ FirstLive(last.pre, reqs[r].tx)
       /\ chan[reqs[r].tx].val # <<>>

\* ---------------------------------------------------------------------------
\* C33: the frames of a payload on their way to the endpoint (SpecSend)
\* ---------------------------------------------------------------------------

\* calls of request made in one behaviour
SendRequests == 1
\* frames the device sends in one behaviour
SendDevFrames == 1
\* frames of the longest payload a caller sends
SendPayloadFrames == 3

\* a payload of one frame and one of SendPayloadFrames frames
SendContents(key) ==
    {Value(TagOf(key[2]), NoEnc, Payload((n - 1) * MAX_PACKAGE_LEN_21 + 1)) :
        n \in {1, SendPayloadFrames}}

NextSend ==
    \/ \E key \in {Key(REPORT_ID_21, KeyInfoCMD, 0)} : \E content \in SendContents(key) :
          ReqCall(key, content, SendRequests)
    \/ \E r \in DOMAIN reqs : ReqLookup(r)
    \/ \E r \in DOMAIN reqs : ReqLock(r)
    \/ \E r \in DOMAIN reqs : ReqRegister(r)
    \/ \E r \in DOMAIN reqs : \E outcome \in {"ok", "error", "timeout"} : ReqSend(r, outcome)
    \/ \E r \in DOMAIN reqs : ReqReceive(r)
    \/ \E r \in DOMAIN reqs : ReqTimeout(r)
    \/ \E r \in DOMAIN reqs : ReqReturn(r)
    \/ ListenerArrive(DevInput(Key(REPORT_ID_21, KeyInfoCMD, 0), STATUS_PARTIAL),
                      SendDevFrames)
    \/ ListenerLookup
    \/ ListenerLock
    \/ ListenerJoin

SpecSend == InitReq /\ [][NextSend]_vars

\* the frames encode_report makes of the call's payload
SendEncoded(r) ==
    encode_report(reqs[r].key[1], ECHO, reqs[r].key[2], reqs[r].key[3], reqs[r].content).reports

\* the number of frames of the call that were handed to the endpoint and sent
SendDone(r) == Len(SendEncoded(r)) - Len(reqs[r].frames)

\* a step that hands frame k of call r to the endpoint, the frames before it
\* having been sent
SendsNext(r) ==
    /\ reqs[r].pc = "send"
    /\ reqs[r].frames # <<>>
    /\ wire' = wire \o SubSeq(SendEncoded(r), SendDone(r) + 1, SendDone(r) + 1)
    /\ reqs'[r].frames = SubSeq(SendEncoded(r), SendDone(r) + 2, Len(SendEncoded(r)))
    /\ \A o \in DOMAIN reqs : o # r => reqs'[o] = reqs[o]

\* a send of call r failed or timed out: the call returns absent and keeps no
\* frame to send
SendAborts(r) ==
    /\ reqs[r].pc = "send"
    /\ reqs'[r].pc = "return"
    /\ reqs'[r].end = "send"
    /\ reqs'[r].frames = <<>>
    /\ reqs'[r].response = Absent
    /\ wire' = wire

\* C33: the frames of a payload reach the endpoint in encode order, one per
\* step, frame k+1 only after the send of frame k completed; a send error or
\* send timeout ends the call with absent and with no frame left to send, and
\* a call that returned hands no further frame to the endpoint
C33_SendOrder ==
    /\ [][/\ wire' # wire => \E r \in DOMAIN reqs : SendsNext(r)
          /\ \A r \in DOMAIN reqs :
                /\ (reqs[r].pc = "send" /\ reqs'[r].pc \in {"return", "done"}) =>
                      SendAborts(r)
                /\ reqs[r].pc = "return" =>
                      /\ reqs'[r].pc \in {"return", "done"}
                      /\ reqs'[r].frames = <<>>
                      /\ reqs'[r].response = Absent
                /\ reqs[r].pc = "done" => reqs'[r] = reqs[r]
                /\ (reqs[r].pc = "send" /\ reqs'[r].pc = "await") =>
                      /\ SendsNext(r)
                      /\ reqs'[r].frames = <<>>]_vars
    /\ [](\A r \in DOMAIN reqs :
            /\ reqs[r].pc = "send" => reqs[r].frames # <<>>
            /\ reqs[r].pc \in {"await", "return", "done"} => reqs[r].frames = <<>>
            /\ reqs[r].end = "send" => reqs[r].response = Absent /\ reqs[r].value = Absent)

\* a call with a payload of three frames sent two of them, then a send failed:
\* the call returned absent and the third frame never reached the endpoint
C33_Witness ==
    \E r \in DOMAIN reqs :
       /\ Len(SendEncoded(r)) = 3
       /\ reqs[r].end = "send"
       /\ Len(reqs) = 1
       /\ wire = SubSeq(SendEncoded(r), 1, 2)

\* ---------------------------------------------------------------------------
\* C34: the chunk requests of set_addressable_data in time (SpecSeq)
\* ---------------------------------------------------------------------------

\* packets of the longest call
SeqChunks == 3

\* a plausible slip: the requests start running when they are made
set_responses_eager(packets_len) == 1..packets_len

\* the requests that have started running when the loop over the packets has
\* pushed them into responses: request is an async fn, and its future does
\* nothing before it is awaited
set_responses(packets_len) == {}

\* the events of a request that starts together with others: its awaiter is
\* registered and its frame is sent
RECURSIVE SeqStarted(_, _)
SeqStarted(k, n) ==
    IF k > n THEN <<>> ELSE <<<<"register", k>>, <<"send", k>>>> \o SeqStarted(k + 1, n)

InitSeq ==
    /\ InitDecoder
    /\ reqs = <<>>
    /\ locks = [map |-> 0, codec |-> 0]
    /\ listener = [pc |-> "idle", frame |-> <<>>]
    /\ wire = <<>>
    /\ mem = NoMem
    /\ all = [pc |-> "idle"]
    /\ last = [op |-> "init"]
    /\ hist = [events |-> <<>>]

\* set_addressable_data up to the loop over the responses: packets_len
\* packets were built and their requests made
SeqCall(packets_len) ==
    /\ all.pc = "idle"
    /\ all' = [pc |-> "next", packets_len |-> packets_len, res_index |-> 0,
               complate |-> TRUE, started |-> set_responses(packets_len)]
    /\ hist' = [events |-> SeqStarted(1, Cardinality(set_responses(packets_len)))]
    /\ last' = [op |-> "call"]
    /\ UNCHANGED <<decoder, wire, mem, reqs, locks, listener>>

\* response.await polls the request of the next packet for the first time:
\* request_with_header registers its awaiter ("ok"), or finds the decoder map
\* busy and returns absent at once ("none"), or finds the decoder lock busy
\* and panics ("busy")
SeqRegister(codec) ==
    /\ all.pc = "next"
    /\ all' = [all EXCEPT !.pc = IF codec = "ok" THEN "send"
                                 ELSE IF codec = "none" THEN "returned"
                                 ELSE "panicked",
                          !.started = all.started \cup {all.res_index + 1},
                          !.complate = IF codec = "ok" THEN all.complate ELSE FALSE]
    /\ hist' = [events |-> hist.events
                  \o (IF all.res_index + 1 \in all.started THEN <<>>
                      ELSE IF codec = "ok" THEN <<<<"register", all.res_index + 1>>>>
                      ELSE <<>>)
                  \o (IF codec = "none" THEN <<<<"return", all.res_index + 1>>>> ELSE <<>>)]
    /\ last' = [op |-> "register"]
    /\ UNCHANGED <<decoder, wire, mem, reqs, locks, listener>>

\* the frame of the packet is handed to the endpoint; a send that fails or
\* times out makes the request return absent
SeqSend(sent) ==
    /\ all.pc = "send"
    /\ all' = [all EXCEPT !.pc = IF sent THEN "await" ELSE "returned",
                          !.complate = IF sent THEN all.complate ELSE FALSE]
    /\ hist' = [events |-> hist.events
                  \o (IF all.res_index + 1 \in set_responses(all.packets_len) THEN <<>>
                      ELSE IF sent THEN <<<<"send", all.res_index + 1>>>>
                      ELSE <<>>)
                  \o (IF sent THEN <<>> ELSE <<<<"return", all.res_index + 1>>>>)]
    /\ last' = [op |-> "send"]
    /\ UNCHANGED <<decoder, wire, mem, reqs, locks, listener>>

\* the request returns: the response of the device, or absent after the
\* request timeout
SeqReturn(response) ==
    /\ all.pc = "await"
    /\ all' = [all EXCEPT !.pc = "returned",
                          !.complate = set_complate(all.complate, request_value(response))]
    /\ hist' = [events |-> Append(hist.events, <<"return", all.res_index + 1>>)]
    /\ last' = [op |-> "return"]
    /\ UNCHANGED <<decoder, wire, mem, reqs, locks, listener>>

\* the rest of the loop body: res_index grows and on_progress is called; its
\* result is dropped
SeqProgress(go_on) ==
    /\ all.pc = "returned"
    /\ all' = [all EXCEPT !.res_index = all.res_index + 1,
                          !.pc = IF all.res_index + 1 = all.packets_len
                                 THEN "probe" ELSE "next"]
    /\ hist' = [events |-> Append(hist.events, <<"progress", all.res_index + 1>>)]
    /\ last' = [op |-> "progress"]
    /\ UNCHANGED <<decoder, wire, mem, reqs, locks, listener>>

\* get_addressable_data_len after the loop, and the return of complate
SeqProbe ==
    /\ all.pc = "probe"
    /\ all' = [all EXCEPT !.pc = "done"]
    /\ hist' = [events |-> Append(hist.events, <<"probe", 0>>)]
    /\ last' = [op |-> "probe"]
    /\ UNCHANGED <<decoder, wire, mem, reqs, locks, listener>>

NextSeq ==
    \/ \E packets_len \in 1..SeqChunks : SeqCall(packets_len)
    \/ \E codec \in {"ok", "none", "busy"} : SeqRegister(codec)
    \/ \E sent \in BOOLEAN : SeqSend(sent)
    \/ \E response \in SetOutcomes : SeqReturn(response)
    \/ \E go_on \in BOOLEAN : SeqProgress(go_on)
    \/ SeqProbe

SpecSeq == InitSeq /\ [][NextSeq]_vars

\* the places of an event in the history
SeqAt(kind, k) == {i \in 1..Len(hist.events) : hist.events[i] = <<kind, k>>}

\* the chunks whose request registered an awaiter or sent a frame and has not
\* returned
SeqInFlight ==
    {k \in 1..SeqChunks :
        (SeqAt("register", k) \cup SeqAt("send", k)) # {} /\ SeqAt("return", k) = {}}

\* C34: no awaiter of chunk k+1 is registered and no frame of it is sent
\* before the request of chunk k has returned, so at most one chunk request is
\* in flight; on_progress is called once after every chunk whose request
\* returned, with a response or absent, and before the next chunk starts; the
\* length probe is issued once, after the last chunk; a call that panicked in
\* a chunk's request does nothing more
C34_Sequential ==
    /\ Cardinality(SeqInFlight) <= 1
    /\ \A k \in 1..(SeqChunks - 1) :
       \A i \in SeqAt("register", k + 1) \cup SeqAt("send", k + 1) :
          \E j \in SeqAt("return", k) : \E p \in SeqAt("progress", k) : j < p /\ p < i
    /\ \A k \in 1..SeqChunks :
          /\ Cardinality(SeqAt("return", k)) <= 1
          /\ Cardinality(SeqAt("progress", k)) <= 1
          /\ \A p \in SeqAt("progress", k) : \E j \in SeqAt("return", k) : j < p
    /\ all.pc \in {"next", "probe", "done"} =>
          \A k \in 1..all.res_index :
             Cardinality(SeqAt("return", k)) = 1 /\ Cardinality(SeqAt("progress", k)) = 1
    /\ SeqAt("probe", 0) # {} =>
          /\ all.pc = "done"
          /\ SeqAt("probe", 0) = {Len(hist.events)}
          /\ SeqAt("progress", all.packets_len) # {}
    /\ all.pc = "done" => SeqAt("probe", 0) # {}
    /\ all.pc = "panicked" => SeqInFlight = {}

\* a call of three chunks ended: a chunk's request returned absent, the
\* second and third chunk went out all the same, each chunk was followed by
\* its progress call, and the probe came last
C34_Witness ==
    /\ all.pc = "done"
    /\ all.packets_len = 3
    /\ ~all.complate
    /\ SeqAt("send", 2) # {}
    /\ SeqAt("send", 3) # {}
    /\ hist.events[Len(hist.events)] = <<"probe", 0>>
    /\ Cardinality(SeqAt("progress", 2)) = 1

\* ---------------------------------------------------------------------------
\* get_addressable_data (SpecGet): C35, C36, C37
\* ---------------------------------------------------------------------------

STATUS_OVERFLOW == 17

\* the longest length the device reports to a probe
GetMaxLen == 3
\* the most data bytes the device puts into one read response
GetMaxData == 2
\* read requests of one call
GetMaxReads == 4

\* the body of a request or response that starts with addr, little-endian
get_addr_bytes(addr) ==
    <<addr % 256, (addr \div 256) % 256, (addr \div 65536) % 256,
      (addr \div 16777216) % 256>>

\* the body of the length probe: address 0xFFFFFFFF
GetOverAddr == <<255, 255, 255, 255>>

\* AddressableData::address: RwBytes::u32 at 0, None (<<>>) for a body of
\* fewer than 4 bytes
get_address(body) == IF 0 + 3 >= Len(body) THEN <<>> ELSE <<u32_le(body)>>

\* AddressableData::data: RwBytes::vec at 4 with no length, the bytes from
\* offset 4 to the end of the body in a one-element sequence, None (<<>>) for
\* a body of fewer than 4 bytes
get_data(body) ==
    LET read_len == IF Len(body) >= 4 THEN Len(body) - 4 ELSE 0
    IN  IF 4 + read_len > Len(body) THEN <<>>
        ELSE <<SubSeq(body, 5, 4 + read_len)>>

\* get_addressable_data_len on what request_with_header returned
get_addressable_data_len(res) ==
    IF res = Absent THEN u32_of(0)
    ELSE IF hdr_status(res[1].header) # STATUS_OVERFLOW THEN u32_of(0)
    ELSE IF get_address(res[1].content) = <<>> THEN u32_of(0)
    ELSE get_address(res[1].content)[1]

\* one turn of the loop of get_addressable_data on what the read returned
get_turn(s, value) ==
    IF value = Absent THEN [s EXCEPT !.pc = "probe2"]
    ELSE IF get_address(value[1]) = <<>> THEN [s EXCEPT !.pc = "panicked"]
    ELSE IF get_address(value[1]) # <<u32_of(Len(s.bytes))>>
         THEN [s EXCEPT !.pc = "panicked"]
    ELSE IF get_data(value[1]) = <<>> THEN [s EXCEPT !.pc = "panicked"]
    ELSE [s EXCEPT !.bytes = s.bytes \o get_data(value[1])[1],
                   !.pc = IF u32_gt(s.max_len, Len(s.bytes \o get_data(value[1])[1]))
                          THEN "read" ELSE "probe2"]

\* the value get_addressable_data returns after the loop: the size and the
\* vector, resized with zero bytes to size when it is shorter. A vector of
\* 2^31 bytes and more stands as its bytes before the resize (data) and the
\* number of zero bytes that follow them (more, 0 otherwise)
get_result(s) ==
    <<[size |-> s.max_len,
       data |-> IF s.max_len.hi = 0 /\ Len(s.bytes) < s.max_len.lo
                THEN s.bytes \o Zeros(s.max_len.lo - Len(s.bytes))
                ELSE s.bytes,
       more |-> IF s.max_len.hi = 1 THEN u32_minus(s.max_len, Len(s.bytes))
                ELSE u32_of(0)]>>

\* the byte the device holds at an address: never zero
GetDev(x) == x + 1

GetResponse(status, body) ==
    <<[header |-> hdr_set_sta_len(Zeros(HEADER_SIZE), status, Len(body) + 4),
       content |-> body]>>

\* what the device answers to a length probe: nothing, a length with the
\* overflow status or with another one, a body too short for an address, a
\* length of 2^31
GetProbeReplies ==
    {Absent, GetResponse(STATUS_OVERFLOW, <<1, 0>>),
     GetResponse(STATUS_OVERFLOW, <<0, 0, 0, 128>>)}
    \cup {GetResponse(st, get_addr_bytes(len)) :
            st \in {STATUS_OVERFLOW, STATUS_OK}, len \in 0..GetMaxLen}

\* what the device answers to a read at addr: nothing, a failure status, a
\* body too short for an address, or up to GetMaxData of its bytes from addr
\* or from the address after it
GetReadReplies(addr) ==
    {Absent, GetResponse(STATUS_OK, <<1, 0>>)}
    \cup {GetResponse(st, get_addr_bytes(a) \o [j \in 1..n |-> GetDev(a + j - 1)]) :
            st \in {STATUS_OK, 16}, a \in {addr, addr + 1}, n \in 0..GetMaxData}

InitGet ==
    /\ InitDecoder
    /\ reqs = <<>>
    /\ locks = [map |-> 0, codec |-> 0]
    /\ listener = [pc |-> "idle", frame |-> <<>>]
    /\ wire = <<>>
    /\ mem = NoMem
    /\ all = [pc |-> "probe1", max_len |-> u32_of(0), bytes |-> <<>>, res |-> Absent]
    /\ last = [op |-> "call", value |-> Absent, pre |-> <<>>]
    /\ hist = [requests |-> <<>>, absent |-> FALSE, empty |-> FALSE]

\* the first length probe: a length of 0 ends the call with absent
GetProbe(res) ==
    /\ all.pc = "probe1"
    /\ all' = [all EXCEPT !.max_len = get_addressable_data_len(res),
                          !.pc = IF get_addressable_data_len(res) = u32_of(0)
                                 THEN "done" ELSE "read"]
    /\ hist' = [hist EXCEPT !.requests = Append(hist.requests, GetOverAddr)]
    /\ last' = [op |-> "probe", value |-> Absent, pre |-> <<>>]
    /\ UNCHANGED <<decoder, wire, mem, reqs, locks, listener>>

\* one turn of the loop: get_addressable_data_with_addr at bytes.len(), whose
\* request returns the content of a response with a success status; hist
\* notes whether a read returned absent and whether one carried no data
GetRead(res) ==
    /\ all.pc = "read"
    /\ Len(hist.requests) <= GetMaxReads
    /\ all' = get_turn(all, request_value(res))
    /\ hist' = [requests |-> Append(hist.requests, get_addr_bytes(Len(all.bytes))),
                absent |-> hist.absent \/ request_value(res) = Absent,
                empty |-> hist.empty \/ (/\ request_value(res) # Absent
                                         /\ Len(request_value(res)[1]) = 4)]
    /\ last' = [op |-> "read", value |-> request_value(res), pre |-> all.bytes]
    /\ UNCHANGED <<decoder, wire, mem, reqs, locks, listener>>

\* the second length probe, whose result is dropped, and the return
GetClose(res) ==
    /\ all.pc = "probe2"
    /\ all' = [all EXCEPT !.pc = "done", !.res = get_result(all)]
    /\ hist' = [hist EXCEPT !.requests = Append(hist.requests, GetOverAddr)]
    /\ last' = [op |-> "close", value |-> Absent, pre |-> all.bytes]
    /\ UNCHANGED <<decoder, wire, mem, reqs, locks, listener>>

NextGet ==
    \/ \E res \in GetProbeReplies : GetProbe(res)
    \/ \E res \in GetReadReplies(Len(all.bytes)) : GetRead(res)
    \/ \E res \in GetProbeReplies : GetClose(res)

SpecGet == InitGet /\ [][NextGet]_vars

\* the call is over: it returned or it panicked
GetOver == all.pc \in {"done", "panicked"}

\* C35 as stated: the first request is a length probe; when it yields 0 no
\* read is issued and the call returns absent; otherwise the reads carry the
\* number of bytes accumulated so far, a response is accepted only with the
\* requested address, and the last request of the call is always a second
\* length probe
C35_ProbeLastAsStated ==
    /\ hist.requests # <<>> => SubSeq(hist.requests, 1, 1) = <<GetOverAddr>>
    /\ (all.pc = "done" /\ all.max_len = u32_of(0)) =>
          hist.requests = <<GetOverAddr>> /\ all.res = Absent
    /\ last.op = "read" =>
          /\ SubSeq(hist.requests, Len(hist.requests), Len(hist.requests))
                = <<get_addr_bytes(Len(last.pre))>>
          /\ all.bytes # last.pre =>
                /\ last.value # Absent
                /\ get_address(last.value[1]) = <<u32_of(Len(last.pre))>>
                /\ get_data(last.value[1]) # <<>>
                /\ all.bytes = last.pre \o get_data(last.value[1])[1]
    /\ (GetOver /\ all.max_len # u32_of(0)) =>
          /\ Len(hist.requests) >= 2
          /\ SubSeq(hist.requests, Len(hist.requests), Len(hist.requests)) = <<GetOverAddr>>

\* the bytes the device holds at addresses 0 .. n - 1
GetDevBytes(n) == [i \in 1..n |-> GetDev(i - 1)]

\* C36 as stated: a result (size, data) has exactly size bytes, each of them
\* returned by the device in a read response for its address; a call one of
\* whose reads returned absent reports no byte the device never sent
C36_ExactAsStated ==
    (all.pc = "done" /\ all.res # Absent) =>
        /\ u32_of(Len(all.res[1].data)) = all.res[1].size
        /\ all.res[1].data = all.bytes
        /\ all.res[1].data = GetDevBytes(Len(all.res[1].data))

\* C37 as stated: the call makes at most as many read requests as the length
\* the first probe reported, whatever the device answers
C37_BoundedAsStated ==
    LET reads == Cardinality({i \in 1..Len(hist.requests) :
                                SubSeq(hist.requests, i, i) # <<GetOverAddr>>})
    IN  reads = 0 \/ u32_gt(all.max_len, reads - 1)

\* ---------------------------------------------------------------------------
\* C38: the end of BroadCast::data (SpecBc)
\* ---------------------------------------------------------------------------

\* C38 as stated: BroadCast::data returns for every byte stream, with no
\* arithmetic overflow and with the cursor advancing in every turn of its
\* loop, also for explicit items whose length byte is 0x00 or 0xFF; a stream
\* whose last item is cut short gives the items before it
C38_TerminatesAsStated ==
    last.op = "data" =>
        /\ last.end = "return"
        /\ hist.stream = <<1, 88, 192, 17, 34>> => Len(last.res) = 1
        /\ hist.stream = <<1, 88, 224, 0, 7, 0>> => Len(last.res) = 2

\* ---------------------------------------------------------------------------
\* C39: the life of a decoder entry (SpecConn)
\* ---------------------------------------------------------------------------

\* is_active_mode of the device's handle
is_active_mode(uuid) == uuid \in all.REPORT_BUFFER_CODEC

\* C39 as stated: for a device whose newest connection event is a detach that
\* has been handled, with none of its events in progress, every removal of its
\* listeners done by the endpoint and no decoder entry (is_active_mode false),
\* no step but the beginning of its next attach makes a decoder entry: neither
\* a late frame nor a request issued for it
C39_OnlyAttachedAsStated ==
    [][\A uuid \in Devices :
        (/\ uuid \in hist.detached
         /\ uuid \notin hist.active
         /\ uuid \notin hist.refused
         /\ ConnQuiet(uuid)
         /\ ~is_active_mode(uuid)) =>
            (uuid \in hist'.active \/ ~is_active_mode(uuid)')]_vars

\* ---------------------------------------------------------------------------
\* C40: the last index of request_all_index (SpecAll)
\* ---------------------------------------------------------------------------

\* C40 as stated: when every request is answered with a success status the
\* loop requests every index from 0x00 through 0xFF: the call ends with 256
\* values, the last of them the value of index 0xFF, and index stays a u8
C40_LastIndexAsStated ==
    /\ all.index <= 255
    /\ (/\ all.pc = "done"
        /\ ~hist.missed
        /\ last.kind = "response"
        /\ last.status \in {STATUS_OK, STATUS_PARTIAL, STATUS_COMPLETE}) =>
           /\ Len(all.res) = 256
           /\ SubSeq(all.res, 256, 256) = <<255>>
====
